---- MODULE Spec2Model ----
(***************************************************************************)
(* State-machine model of the tetrs multiplayer Tetris server              *)
(* (GameService, RedisService, GameGateway, TetrisCoreService).            *)
(*                                                                         *)
(* The Redis store is a set of keyed records written and read atomically   *)
(* in issue order.  Every handler of the server is an async function: it   *)
(* is split here at its awaits, and the steps of different handlers        *)
(* interleave freely, as they do on the Node.js event loop.                *)
(***************************************************************************)
EXTENDS Integers, Sequences, FiniteSets, TLC

\* An absent string value (a JavaScript null or undefined piece type).
Null == "null"

\* Body(e) with e evaluated once, as a const declaration does.
Let(e, Body(_)) == CHOOSE r \in {Body(v) : v \in {e}} : TRUE

(***************************************************************************)
(* Seeded 7-bag generator                                                  *)
(***************************************************************************)

\* 2^31 - 1, the mask and divisor of createSeededRandom.
MASK31 == 2147483647

LCG_MUL_HI == 16838
LCG_MUL_LO == 20077
LCG_INC == 12345

Pow2(n) == IF n = 0 THEN 1 ELSE IF n = 1 THEN 2 ELSE IF n = 2 THEN 4
           ELSE IF n = 3 THEN 8 ELSE IF n = 4 THEN 16 ELSE IF n = 5 THEN 32
           ELSE IF n = 6 THEN 64 ELSE IF n = 7 THEN 128 ELSE IF n = 8 THEN 256
           ELSE IF n = 9 THEN 512 ELSE 1024

\* A non-negative number below 2^62 is kept as [hi, lo] = hi * 2^31 + lo.
Wide(hi, lo) == [hi |-> hi, lo |-> lo]

\* x + y for x, y in 0 .. 2^31 - 1, as a Wide (no 32-bit overflow on the way).
AddWide31(x, y) ==
    IF x <= MASK31 - y
    THEN Wide(0, x + y)
    ELSE Wide(1, (x - (MASK31 - y)) - 1)

\* The exact product state * 1103515245 of a 31-bit state, as a Wide.
MulLcg(state) ==
    LET s1 == state \div 65536
        s0 == state % 65536
        A  == s1 * LCG_MUL_HI
        B  == s1 * LCG_MUL_LO + s0 * LCG_MUL_HI
        C  == s0 * LCG_MUL_LO
        low == AddWide31((B % 32768) * 65536, C)
    IN  Wide(2 * A + (B \div 32768) + low.hi, low.lo)

\* Number of bits of hi above 2^22, that is how many low bits a double drops.
DroppedBits(hi) ==
    IF hi < 4194304 THEN 0
    ELSE IF hi < 8388608 THEN 1
    ELSE IF hi < 16777216 THEN 2
    ELSE IF hi < 33554432 THEN 3
    ELSE IF hi < 67108864 THEN 4
    ELSE IF hi < 134217728 THEN 5
    ELSE IF hi < 268435456 THEN 6
    ELSE IF hi < 536870912 THEN 7
    ELSE IF hi < 1073741824 THEN 8
    ELSE 9

\* IEEE-754 double rounding (53-bit significand, ties to even) of a Wide.
RoundDouble(w) ==
    LET k    == DroppedBits(w.hi)
        unit == Pow2(k)
        r    == w.lo % unit
        base == w.lo - r
        odd  == (base \div unit) % 2 = 1
        up   == k > 0 /\ (2 * r > unit \/ (2 * r = unit /\ odd))
    IN  IF ~up THEN Wide(w.hi, base)
        ELSE IF base <= MASK31 - unit THEN Wide(w.hi, base + unit)
        ELSE Wide(w.hi + 1, 0)

\* |state| * 1103515245 for a negative 32-bit state.
MulMagnitude(state) ==
    IF state = (-MASK31) - 1
    THEN Wide(LCG_MUL_HI * 65536 + LCG_MUL_LO, 0)
    ELSE MulLcg(-state)

\* w - y for a Wide w >= y and y in 0 .. 2^31 - 1.
SubWide(w, y) ==
    IF w.lo >= y THEN Wide(w.hi, w.lo - y)
    ELSE Wide(w.hi - 1, (w.lo + (MASK31 - y)) + 1)

\* The low 31 bits of -m, given the low 31 bits of m.
Complement31(lo) == IF lo = 0 THEN 0 ELSE (MASK31 - lo) + 1

\* The generator's step in exact integer arithmetic, without the rounding
\* of doubles.
LcgNextExact(state) ==
    IF state >= 0
    THEN AddWide31(MulLcg(state).lo, LCG_INC).lo
    ELSE Complement31(SubWide(MulMagnitude(state), LCG_INC).lo)

\* One step of the generator's state:
\*   state = (state * 1103515245 + 12345) & 0x7fffffff
\* in JavaScript number arithmetic: the product and the sum are each rounded
\* to a double, and the mask keeps the low 31 bits.
\* For a negative state (a negative seed at the first call) the product is
\* negative: rounding acts on the magnitude, and the mask of the 32-bit
\* two's complement keeps 2^31 minus the low 31 bits of the magnitude.
LcgNext(state) ==
    IF state >= 0
    THEN Let(RoundDouble(MulLcg(state)), LAMBDA p :
         Let(AddWide31(p.lo, LCG_INC), LAMBDA s :
             RoundDouble(Wide(p.hi + s.hi, s.lo)).lo))
    ELSE Let(RoundDouble(MulMagnitude(state)), LAMBDA p :
         Let(RoundDouble(SubWide(p, LCG_INC)), LAMBDA q :
             Complement31(q.lo)))

\* Math.floor((state / 0x7fffffff) * m) for 1 <= m <= 7.  The quotient is
\* exact except at state = 0x7fffffff, where the generator returns 1.0.
RECURSIVE ScaleAcc(_, _, _, _)
ScaleAcc(state, m, q, r) ==
    IF m = 0 THEN q
    ELSE IF r >= MASK31 - state
         THEN ScaleAcc(state, m - 1, q + 1, r - (MASK31 - state))
         ELSE ScaleAcc(state, m - 1, q, r + state)

FloorScaled(state, m) == ScaleAcc(state, m, 0, 0)

TetrominoTypes == <<"I", "O", "T", "S", "Z", "J", "L">>

Swap(bag, i, j) ==
    [k \in 1..Len(bag) |->
        IF k = i THEN (IF j <= Len(bag) THEN bag[j] ELSE Null)
        ELSE IF k = j THEN bag[i]
        ELSE bag[k]]

\* Fisher-Yates shuffle of the seven types, i from 6 down to 1 (0-based),
\* j = floor(rand() * (i + 1)).  Sequences are 1-based here.
RECURSIVE Shuffle(_, _, _)
Shuffle(bag, state, i) ==
    IF i = 0 THEN bag
    ELSE Let(LcgNext(state), LAMBDA st :
         Let(FloorScaled(st, i + 1), LAMBDA j :
         Let(Swap(bag, i + 1, j + 1), LAMBDA swapped :
             Shuffle(swapped, st, i - 1))))

generateNewBagWithSeed(seed) ==
    Let(seed, LAMBDA state : Shuffle(TetrominoTypes, state, 6))

(***************************************************************************)
(* Tetris core: board, pieces, collision, placement, line clear            *)
(***************************************************************************)

BOARD_WIDTH == 10
BOARD_HEIGHT == 20

\* Filled cells <<x, y>> of each shape matrix, per type and rotation 0..3
\* (index rotation + 1): the standard SRS shape set.
TETROMINO_SHAPES ==
    [I |-> << {<<0,1>>, <<1,1>>, <<2,1>>, <<3,1>>},
              {<<2,0>>, <<2,1>>, <<2,2>>, <<2,3>>},
              {<<0,2>>, <<1,2>>, <<2,2>>, <<3,2>>},
              {<<1,0>>, <<1,1>>, <<1,2>>, <<1,3>>} >>,
     O |-> << {<<0,0>>, <<1,0>>, <<0,1>>, <<1,1>>},
              {<<0,0>>, <<1,0>>, <<0,1>>, <<1,1>>},
              {<<0,0>>, <<1,0>>, <<0,1>>, <<1,1>>},
              {<<0,0>>, <<1,0>>, <<0,1>>, <<1,1>>} >>,
     T |-> << {<<1,0>>, <<0,1>>, <<1,1>>, <<2,1>>},
              {<<1,0>>, <<1,1>>, <<2,1>>, <<1,2>>},
              {<<0,1>>, <<1,1>>, <<2,1>>, <<1,2>>},
              {<<1,0>>, <<0,1>>, <<1,1>>, <<1,2>>} >>,
     S |-> << {<<1,0>>, <<2,0>>, <<0,1>>, <<1,1>>},
              {<<1,0>>, <<1,1>>, <<2,1>>, <<2,2>>},
              {<<1,1>>, <<2,1>>, <<0,2>>, <<1,2>>},
              {<<0,0>>, <<0,1>>, <<1,1>>, <<1,2>>} >>,
     Z |-> << {<<0,0>>, <<1,0>>, <<1,1>>, <<2,1>>},
              {<<2,0>>, <<1,1>>, <<2,1>>, <<1,2>>},
              {<<0,1>>, <<1,1>>, <<1,2>>, <<2,2>>},
              {<<1,0>>, <<0,1>>, <<1,1>>, <<0,2>>} >>,
     J |-> << {<<0,0>>, <<0,1>>, <<1,1>>, <<2,1>>},
              {<<1,0>>, <<2,0>>, <<1,1>>, <<1,2>>},
              {<<0,1>>, <<1,1>>, <<2,1>>, <<2,2>>},
              {<<1,0>>, <<1,1>>, <<0,2>>, <<1,2>>} >>,
     L |-> << {<<2,0>>, <<0,1>>, <<1,1>>, <<2,1>>},
              {<<1,0>>, <<1,1>>, <<1,2>>, <<2,2>>},
              {<<0,1>>, <<1,1>>, <<2,1>>, <<0,2>>},
              {<<0,0>>, <<1,0>>, <<1,1>>, <<1,2>>} >>]

TETROMINO_SPAWN_POSITIONS ==
    [I |-> [x |-> 3, y |-> 0], O |-> [x |-> 4, y |-> 0],
     T |-> [x |-> 3, y |-> 0], S |-> [x |-> 3, y |-> 0],
     Z |-> [x |-> 3, y |-> 0], J |-> [x |-> 3, y |-> 0],
     L |-> [x |-> 3, y |-> 0]]

TypeSet == {TetrominoTypes[i] : i \in 1..7}

\* A board is the sequence of its rows, top row first; a row is the set of
\* its filled columns.  Row y of the source is board[y + 1].
EmptyRow == {}
FullRow == 0..(BOARD_WIDTH - 1)

createEmptyBoard == [r \in 1..BOARD_HEIGHT |-> EmptyRow]

\* A piece is [type, x, y, rotation]; its shape is the table entry.
createTetromino(type) ==
    [type |-> type,
     x |-> TETROMINO_SPAWN_POSITIONS[type].x,
     y |-> TETROMINO_SPAWN_POSITIONS[type].y,
     rotation |-> 0]

\* The server-side block adds falling / lockDelay / dropTime, which no
\* operation reads back.
createTetrisBlock(type) == createTetromino(type)

ShapeOf(piece) == TETROMINO_SHAPES[piece.type][piece.rotation + 1]

CellsAt(piece, dx, dy) ==
    {<<piece.x + dx + c[1], piece.y + dy + c[2]>> : c \in ShapeOf(piece)}

isValidPosition(piece, board, dx, dy) ==
    \A c \in CellsAt(piece, dx, dy) :
        /\ c[1] >= 0
        /\ c[1] < BOARD_WIDTH
        /\ c[2] < BOARD_HEIGHT
        /\ (c[2] >= 0 => c[1] \notin board[c[2] + 1])

placeTetromino(piece, board) ==
    [r \in 1..BOARD_HEIGHT |->
        board[r] \cup {c[1] : c \in {d \in CellsAt(piece, 0, 0) : d[2] + 1 = r}}]

NotFull(row) == row # FullRow

clearLines(board) ==
    LET kept == SelectSeq(board, NotFull)
        n    == BOARD_HEIGHT - Len(kept)
    IN  [newBoard |-> [r \in 1..n |-> EmptyRow] \o kept, linesCleared |-> n]

moveTetromino(piece, board, dx, dy) ==
    IF isValidPosition(piece, board, dx, dy)
    THEN [piece EXCEPT !.x = piece.x + dx, !.y = piece.y + dy]
    ELSE Null

RECURSIVE DropDistance(_, _, _)
DropDistance(piece, board, d) ==
    IF isValidPosition(piece, board, 0, d + 1)
    THEN DropDistance(piece, board, d + 1)
    ELSE d

dropTetromino(piece, board) ==
    Let(piece, LAMBDA pc : Let(board, LAMBDA b :
        [pc EXCEPT !.y = pc.y + DropDistance(pc, b, 0)]))

hardDrop(piece, board) ==
    Let(dropTetromino(piece, board), LAMBDA dropped :
        [droppedPiece |-> dropped, dropDistance |-> dropped.y - piece.y])

getGhostPiece(piece, board) == dropTetromino(piece, board)

LINE_SCORES == <<0, 100, 300, 500, 800>>

calculateScore(linesCleared, level) == LINE_SCORES[linesCleared + 1] * (level + 1)

clearLinesAndCalculateScore(board, level) ==
    Let(clearLines(board), LAMBDA cl :
        [newBoard |-> cl.newBoard,
         linesCleared |-> cl.linesCleared,
         score |-> calculateScore(cl.linesCleared, level)])

\* Game over iff none of the seven types can be placed at its spawn position.
\* The test of the top row alone.
TopRowFilled(board) == board[1] # {}

isGameOver(board) ==
    \A t \in TypeSet : ~isValidPosition(createTetromino(t), board, 0, 0)

\* GameService.calculateLevel, the one the lock paths use.
calculateLevel(linesCleared) == (linesCleared \div 10) + 1

(***************************************************************************)
(* Bounds of the model                                                     *)
(***************************************************************************)

\* Rooms createNewRoom may mint, and joinAutoRoom messages one socket sends.
MaxRoomId == 2
MaxJoinsPerSocket == 1
\* Players already seated in room 1 in the crowded initial state.
Residents == 98
\* Gravity ticks fired and inputs received per run of the game model.
MaxTicks == 1
MaxInputs == 2

\* Socket ids are drawn from a range disjoint from the player ids, as a
\* socket.io id is never a uuid.
Sockets == {1001, 1002}
GameSockets == {1001}
\* Seeds generateOptimizedSeed may return (it mixes clock and Math.random).
Seeds == {12344}
\* Values createNewRoom may give roomSeed (clock plus Math.random).
RoomSeeds == {777}
\* playerId.charCodeAt(0) of a uuid: a hex digit.
CharCodes == {48, 102}

(***************************************************************************)
(* Server state                                                            *)
(***************************************************************************)

MAX_PLAYERS_PER_ROOM == 99

VARIABLES
    rooms,           \* room:{id} records of the store
    activeRooms,     \* the active_rooms set of the store
    players,         \* player:{id} records (and the players set)
    socketKeys,      \* socket:{socketId} keys
    playerGame,      \* player_game:{id} records
    gameStateCache,  \* GameService.gameStateCache
    gameTimers,      \* GameService.gameTimers
    published,       \* messages published on the pub/sub channels
    nextPlayerId,    \* ids RedisService.generateId has handed out so far
    nextRoomId,      \* room ids createNewRoom has minted so far
    session,         \* per socket: connected, and the ids the client was told
    joinTask,        \* per socket: the running joinAutoRoom handler
    leaveTask,       \* per socket: the running leaveAutoRoom handler
    startTask,       \* per socket: the running startRoomGame handler
    gameTask,        \* running handlePlayerInput handlers and tick callbacks
    ticks,           \* number of timer callbacks fired
    inputs,          \* number of handlePlayerInput messages received
    history,         \* what has completed, for stating the properties
    bagRun,          \* the locals of a running generateNewBagWithSeed call
    sync,            \* NetworkSyncService: client states and input events
    bus              \* the subscriptions of the gateway and their messages

serverVars == <<rooms, activeRooms, players, socketKeys, playerGame,
                gameStateCache, gameTimers, published, nextPlayerId,
                nextRoomId, session, joinTask, leaveTask, startTask, gameTask,
                ticks, inputs, history>>

vars == <<serverVars, bagRun, sync, bus>>

storeVars == <<rooms, activeRooms, players, socketKeys, playerGame>>

\* Key-value maps are functions whose domain is the set of present keys.
Put(f, k, v) == (k :> v) @@ f
Del(f, k) == [x \in DOMAIN f \ {k} |-> f[x]]
Has(f, k) == k \in DOMAIN f
EmptyMap == [x \in {} |-> 0]

NoRoom == [id |-> 0, status |-> "NONE", currentPlayers |-> 0, roomSeed |-> 0]
NoPiece == [type |-> Null, x |-> 0, y |-> 0, rotation |-> 0]
NoState == [playerId |-> 0]
Expired == [expired |-> TRUE]

getRoom(roomId) == IF Has(rooms, roomId) THEN rooms[roomId] ELSE NoRoom

IdleJoin == [pc |-> "idle", roomId |-> 0, playerId |-> 0, room |-> NoRoom]
IdleLeave == [pc |-> "idle", roomId |-> 0, playerId |-> 0, room |-> NoRoom,
              running |-> FALSE]
IdleStart == [pc |-> "idle", roomId |-> 0, pending |-> {}, room |-> NoRoom]
NoTimer == [level |-> 0]
NoSession == [connected |-> TRUE, roomId |-> 0, playerId |-> 0, joins |-> 0]

(***************************************************************************)
(* PlayerGameState and the player simulation                               *)
(***************************************************************************)

\* The record initializePlayerGameState stores at join.
InitialGameState(playerId, roomId, gameSeed) ==
    Let(generateNewBagWithSeed(gameSeed), LAMBDA initialBag :
        [playerId |-> playerId, roomId |-> roomId, gameStarted |-> FALSE,
         score |-> 0, level |-> 0, linesCleared |-> 0,
         currentPiece |-> NoPiece, nextPiece |-> initialBag[1],
         heldPiece |-> Null, canHold |-> TRUE, ghostPiece |-> NoPiece,
         board |-> createEmptyBoard, gameOver |-> FALSE,
         tetrominoBag |-> initialBag, bagIndex |-> 1, bagNumber |-> 1,
         gameSeed |-> gameSeed])

\* The record startPlayerGame stores.
StartedGameState(playerId, roomId, gameSeed) ==
    Let(generateNewBagWithSeed(gameSeed), LAMBDA initialBag :
    Let(createTetrisBlock(initialBag[1]), LAMBDA first :
        [playerId |-> playerId, roomId |-> roomId, gameStarted |-> TRUE,
         score |-> 0, level |-> 1, linesCleared |-> 0,
         currentPiece |-> first, nextPiece |-> initialBag[2],
         heldPiece |-> Null, canHold |-> TRUE,
         ghostPiece |-> getGhostPiece(first, createEmptyBoard),
         board |-> createEmptyBoard, gameOver |-> FALSE,
         tetrominoBag |-> initialBag, bagIndex |-> 2, bagNumber |-> 1,
         gameSeed |-> gameSeed]))

\* getNextPiece mutates the state it is given: the result carries the drawn
\* type and the state after the draw.
getNextPiece(st) ==
    LET refill == st.bagIndex >= Len(st.tetrominoBag)
        number == IF refill THEN st.bagNumber + 1 ELSE st.bagNumber
        index  == IF refill THEN 0 ELSE st.bagIndex
    IN  Let(IF refill THEN generateNewBagWithSeed(st.gameSeed + number)
                      ELSE st.tetrominoBag, LAMBDA bag :
            [type |-> bag[index + 1],
             st |-> [st EXCEPT !.bagNumber = number, !.tetrominoBag = bag,
                               !.bagIndex = index + 1]])

\* The lock pipeline shared by moveDown on collision, hardDrop and the
\* auto-drop: place, clear lines, score, spawn from the bag, draw the next
\* type, ghost, level, game-over test.  The piece to place is st.currentPiece.
LockPiece(playerState) ==
    Let(playerState, LAMBDA st :
    Let(placeTetromino(st.currentPiece, st.board), LAMBDA placed :
    Let(clearLinesAndCalculateScore(placed, st.level), LAMBDA clr :
    Let([st EXCEPT !.board = clr.newBoard,
                   !.linesCleared = st.linesCleared + clr.linesCleared,
                   !.score = st.score + clr.score], LAMBDA s1 :
    Let(getNextPiece(s1), LAMBDA d1 :
    Let(createTetrisBlock(d1.type), LAMBDA piece :
    Let(getNextPiece(d1.st), LAMBDA d2 :
        [d2.st EXCEPT !.currentPiece = piece,
                      !.nextPiece = d2.type,
                      !.ghostPiece = getGhostPiece(piece, clr.newBoard),
                      !.level = calculateLevel(s1.linesCleared),
                      !.gameOver = isGameOver(clr.newBoard)])))))))

HasPiece(st) == st.currentPiece # NoPiece

\* The hold case reads currentPiece.type without testing currentPiece: with
\* no current piece it throws, and the handler returns null.
HoldThrows(st, action) == action = "hold" /\ st.canHold /\ ~HasPiece(st)

\* The hold case: the current type goes to heldPiece, the held type, or
\* else a draw from the bag, becomes the current piece; canHold is cleared.
HoldPiece(st) ==
    Let(IF st.heldPiece # Null THEN [type |-> st.heldPiece, st |-> st]
        ELSE getNextPiece(st), LAMBDA d :
    Let(createTetrisBlock(d.type), LAMBDA piece :
        [d.st EXCEPT !.heldPiece = st.currentPiece.type,
                     !.currentPiece = piece,
                     !.ghostPiece = getGhostPiece(piece, st.board),
                     !.canHold = FALSE]))

\* moveLeft and moveRight: the piece one column aside if that is free.
Shift(st, dx) ==
    IF isValidPosition(st.currentPiece, st.board, dx, 0)
    THEN Let(moveTetromino(st.currentPiece, st.board, dx, 0), LAMBDA moved :
             [st EXCEPT !.currentPiece = moved,
                        !.ghostPiece = getGhostPiece(moved, st.board)])
    ELSE st

\* updatedState of handlePlayerInputServerOnly for an action of the switch.
\* locked tells whether the lock pipeline ran.
ApplyAction(st, action) ==
    IF action = "hold"
    THEN [st |-> IF st.canHold /\ HasPiece(st) THEN HoldPiece(st) ELSE st,
          locked |-> FALSE]
    ELSE IF ~HasPiece(st) THEN [st |-> st, locked |-> FALSE]
    ELSE IF action = "moveLeft" THEN [st |-> Shift(st, -1), locked |-> FALSE]
    ELSE IF action = "moveRight" THEN [st |-> Shift(st, 1), locked |-> FALSE]
    ELSE IF action = "moveDown"
    THEN LET moved == moveTetromino(st.currentPiece, st.board, 0, 1)
         IN  IF isValidPosition(st.currentPiece, st.board, 0, 1)
             THEN [st |-> [st EXCEPT !.currentPiece = moved,
                                     !.ghostPiece = getGhostPiece(moved, st.board)],
                   locked |-> FALSE]
             ELSE [st |-> LockPiece(st), locked |-> TRUE]
    ELSE \* hardDrop
         Let(hardDrop(st.currentPiece, st.board), LAMBDA dr :
             [st |-> LockPiece([st EXCEPT !.currentPiece = dr.droppedPiece,
                                          !.score = st.score + dr.dropDistance * 2]),
              locked |-> TRUE])

\* updatedState of autoDropPiece for a state with a current piece.
AutoDrop(st) == ApplyAction(st, "moveDown")

(***************************************************************************)
(* The cached read of player_game:{id}                                     *)
(***************************************************************************)

CacheFresh(p) == Has(gameStateCache, p) /\ gameStateCache[p] # Expired

\* What getPlayerGameState returns: the cached state while the entry is
\* younger than CACHE_TTL, else the stored record.  NoState stands for null.
getPlayerGameState(p) ==
    IF CacheFresh(p) THEN gameStateCache[p]
    ELSE IF Has(playerGame, p) THEN playerGame[p]
    ELSE NoState

\* The cache after getPlayerGameState has run for every player of ps.
CacheAfterReads(cache, ps) ==
    LET fill == {p \in ps : ~(Has(cache, p) /\ cache[p] # Expired) /\ Has(playerGame, p)}
    IN  [p \in DOMAIN cache \cup fill |->
            IF p \in fill THEN playerGame[p] ELSE cache[p]]

invalidateCache(cache, p) == Del(cache, p)

\* Players getRoomPlayers finds in a room: player records whose gameId is it.
RoomPlayers(roomId) == {p \in DOMAIN players : players[p].gameId = roomId}

(***************************************************************************)
(* Room manager: joinAutoRoom                                              *)
(***************************************************************************)

Msg(channel, id, type) ==
    [channel |-> channel, id |-> id, type |-> type, gameOver |-> FALSE]

\* Rooms findAvailableRoom may return: Array.find takes the first match in
\* the order smembers lists active_rooms, which is any order.
Candidates ==
    LET all     == {r \in activeRooms : Has(rooms, r)}
        open    == {r \in all : rooms[r].currentPlayers < MAX_PLAYERS_PER_ROOM}
        playing == {r \in open : rooms[r].status = "PLAYING"}
        waiting == {r \in open : rooms[r].status = "WAITING"}
    IN  IF playing # {} THEN playing
        ELSE IF waiting # {} THEN waiting
        ELSE open

\* The joinAutoRoom handler tests nothing about its socket before it calls
\* joinGameAuto; seated tells whether the client sending the message has
\* been answered with a player id and has not left.
\* joinGameAuto step 1: findAvailableRoom.
FindRoom(s, seated, most) ==
    /\ session[s].connected
    /\ (session[s].playerId # 0) = seated
    /\ joinTask[s].pc = "idle"
    /\ leaveTask[s].pc = "idle"
    /\ session[s].joins < most
    /\ IF Candidates = {}
       THEN /\ nextRoomId + Cardinality({t \in Sockets : joinTask[t].pc = "create"})
                   <= MaxRoomId
            /\ joinTask' = [joinTask EXCEPT ![s] = [IdleJoin EXCEPT !.pc = "create"]]
       ELSE \E r \in Candidates :
                joinTask' = [joinTask EXCEPT ![s] =
                                [IdleJoin EXCEPT !.pc = "player", !.roomId = r]]
    /\ session' = [session EXCEPT ![s].joins = @ + 1]
    /\ UNCHANGED <<storeVars, gameStateCache, gameTimers, published,
                   nextPlayerId, nextRoomId, leaveTask, startTask,
                   gameTask, ticks, inputs, history>>
    /\ UNCHANGED <<bagRun, sync, bus>>

JoinFindRoom(s) == FindRoom(s, FALSE, MaxJoinsPerSocket)

\* joinGameAuto step 2: createNewRoom (set room:{id}, sadd active_rooms).
CreateRoom(s, seeds) ==
    /\ joinTask[s].pc = "create"
    /\ \E seed \in seeds :
           /\ rooms' = Put(rooms, nextRoomId,
                           [id |-> nextRoomId, status |-> "WAITING",
                            currentPlayers |-> 0, roomSeed |-> seed])
           /\ history' = [history EXCEPT !.created = Put(@, nextRoomId, seed)]
    /\ activeRooms' = activeRooms \cup {nextRoomId}
    /\ nextRoomId' = nextRoomId + 1
    /\ joinTask' = [joinTask EXCEPT ![s].pc = "player", ![s].roomId = nextRoomId]
    /\ UNCHANGED <<players, socketKeys, playerGame, gameStateCache, gameTimers,
                   published, nextPlayerId, session, leaveTask, startTask,
                   gameTask, ticks, inputs>>
    /\ UNCHANGED <<bagRun, sync, bus>>

JoinCreateRoom(s) == CreateRoom(s, RoomSeeds)

NewPlayer(roomId, socketId) ==
    [gameId |-> roomId, socketId |-> socketId, score |-> 0, linesCleared |-> 0,
     level |-> 0]

\* joinPlayerToRoom, first await: RedisService.createPlayer.
JoinCreatePlayer(s) ==
    /\ joinTask[s].pc = "player"
    /\ players' = Put(players, nextPlayerId, NewPlayer(joinTask[s].roomId, s))
    /\ socketKeys' = Put(socketKeys, s, nextPlayerId)
    /\ nextPlayerId' = nextPlayerId + 1
    /\ joinTask' = [joinTask EXCEPT ![s].pc = "incRead", ![s].playerId = nextPlayerId]
    /\ UNCHANGED <<rooms, activeRooms, playerGame, gameStateCache, gameTimers,
                   published, nextRoomId, session, leaveTask, startTask,
                   gameTask, ticks, inputs, history>>
    /\ UNCHANGED <<bagRun, sync, bus>>

\* incrementRoomPlayers: the getRoom.
JoinIncrementRead(s) ==
    /\ joinTask[s].pc = "incRead"
    /\ joinTask' = [joinTask EXCEPT ![s].pc = "incWrite",
                                    ![s].room = getRoom(joinTask[s].roomId)]
    /\ UNCHANGED <<storeVars, gameStateCache, gameTimers, published,
                   nextPlayerId, nextRoomId, session, leaveTask, startTask,
                   gameTask, ticks, inputs, history>>
    /\ UNCHANGED <<bagRun, sync, bus>>

\* incrementRoomPlayers: room.currentPlayers += 1 and the set of the record
\* that was read.
JoinIncrementWrite(s) ==
    /\ joinTask[s].pc = "incWrite"
    /\ LET room == joinTask[s].room
       IN  rooms' = IF room = NoRoom THEN rooms
                    ELSE Put(rooms, room.id,
                             [room EXCEPT !.currentPlayers = room.currentPlayers + 1])
    /\ joinTask' = [joinTask EXCEPT ![s].pc = "init", ![s].room = NoRoom]
    /\ UNCHANGED <<activeRooms, players, socketKeys, playerGame, gameStateCache,
                   gameTimers, published, nextPlayerId, nextRoomId, session,
                   leaveTask, startTask, gameTask, ticks, inputs, history>>
    /\ UNCHANGED <<bagRun, sync, bus>>

\* initializePlayerGameState: throws when the room is gone (joinGameAuto
\* rethrows and the handler answers with an error), else stores the record.
JoinInitState(s) ==
    /\ joinTask[s].pc = "init"
    /\ IF getRoom(joinTask[s].roomId) = NoRoom
       THEN /\ joinTask' = [joinTask EXCEPT ![s] = IdleJoin]
            /\ UNCHANGED playerGame
       ELSE /\ \E seed \in Seeds :
                   playerGame' = Put(playerGame, joinTask[s].playerId,
                                     InitialGameState(joinTask[s].playerId,
                                                      joinTask[s].roomId, seed))
            /\ joinTask' = [joinTask EXCEPT ![s].pc = "actRead"]
    /\ UNCHANGED <<rooms, activeRooms, players, socketKeys, gameStateCache,
                   gameTimers, published, nextPlayerId, nextRoomId, session,
                   leaveTask, startTask, gameTask, ticks, inputs, history>>
    /\ UNCHANGED <<bagRun, sync, bus>>

\* updateRoomActivity: the getRoom.
JoinActivityRead(s) ==
    /\ joinTask[s].pc = "actRead"
    /\ joinTask' = [joinTask EXCEPT ![s].pc = "actWrite",
                                    ![s].room = getRoom(joinTask[s].roomId)]
    /\ UNCHANGED <<storeVars, gameStateCache, gameTimers, published,
                   nextPlayerId, nextRoomId, session, leaveTask, startTask,
                   gameTask, ticks, inputs, history>>
    /\ UNCHANGED <<bagRun, sync, bus>>

\* updateRoomActivity: the set of the record that was read (lastActivity is
\* not kept here, the rest of the record is rewritten as read).
JoinActivityWrite(s) ==
    /\ joinTask[s].pc = "actWrite"
    /\ LET room == joinTask[s].room
       IN  rooms' = IF room = NoRoom THEN rooms ELSE Put(rooms, room.id, room)
    /\ joinTask' = [joinTask EXCEPT ![s].pc = "publish", ![s].room = NoRoom]
    /\ UNCHANGED <<activeRooms, players, socketKeys, playerGame, gameStateCache,
                   gameTimers, published, nextPlayerId, nextRoomId, session,
                   leaveTask, startTask, gameTask, ticks, inputs, history>>
    /\ UNCHANGED <<bagRun, sync, bus>>

\* What getRoomPlayers reads: nothing when the room is missing.
ReadersOf(roomId) == IF Has(rooms, roomId) THEN RoomPlayers(roomId) ELSE {}

\* publishPlayerStateChanged: getRoomPlayers reads every player's game state
\* through the cache, then the roster is published.
PublishPlayerStateChanged(roomId) ==
    /\ gameStateCache' = CacheAfterReads(gameStateCache, ReadersOf(roomId))
    /\ published' = published \cup {Msg("player_state_changed", roomId, "players")}

\* The rest of the joinAutoRoom handler after joinGameAuto has returned:
\* roster reads, publishPlayerStateChanged, and the reply with the ids.
JoinPublish(s) ==
    /\ joinTask[s].pc = "publish"
    /\ PublishPlayerStateChanged(joinTask[s].roomId)
    /\ session' = [session EXCEPT ![s].roomId = joinTask[s].roomId,
                                  ![s].playerId = joinTask[s].playerId]
    /\ history' = [history EXCEPT !.joined = @ \cup {joinTask[s].playerId}]
    /\ joinTask' = [joinTask EXCEPT ![s] = IdleJoin]
    /\ UNCHANGED <<storeVars, gameTimers, nextPlayerId, nextRoomId, leaveTask,
                   startTask, gameTask, ticks, inputs>>
    /\ UNCHANGED <<bagRun, sync, bus>>

(***************************************************************************)
(* Room manager: leaveAutoRoom                                             *)
(***************************************************************************)

\* The stored state of p is one of a running game.
Running(p) ==
    /\ Has(playerGame, p)
    /\ playerGame[p].gameStarted
    /\ ~playerGame[p].gameOver

\* The handler receives {roomId, playerId}; the client sends the ids it was
\* given at join.  First await of leaveGameAuto: cleanupPlayerGameState,
\* which only deletes player_game:{id}.  The task remembers whether the
\* game was running, for the properties.
LeaveCleanup(s) ==
    /\ session[s].connected
    /\ session[s].playerId # 0
    /\ leaveTask[s].pc = "idle"
    /\ playerGame' = Del(playerGame, session[s].playerId)
    /\ leaveTask' = [leaveTask EXCEPT ![s] =
                        [IdleLeave EXCEPT !.pc = "delPlayer",
                                          !.roomId = session[s].roomId,
                                          !.playerId = session[s].playerId,
                                          !.running = Running(session[s].playerId)]]
    /\ session' = [session EXCEPT ![s].roomId = 0, ![s].playerId = 0]
    /\ UNCHANGED <<rooms, activeRooms, players, socketKeys, gameStateCache,
                   gameTimers, published, nextPlayerId, nextRoomId, joinTask,
                   startTask, gameTask, ticks, inputs, history>>
    /\ UNCHANGED <<bagRun, sync, bus>>

\* removePlayerFromRoom, first await: RedisService.deletePlayer.
LeaveDeletePlayer(s) ==
    /\ leaveTask[s].pc = "delPlayer"
    /\ players' = Del(players, leaveTask[s].playerId)
    /\ leaveTask' = [leaveTask EXCEPT ![s].pc = "decRead"]
    /\ UNCHANGED <<rooms, activeRooms, socketKeys, playerGame, gameStateCache,
                   gameTimers, published, nextPlayerId, nextRoomId, session,
                   joinTask, startTask, gameTask, ticks, inputs, history>>
    /\ UNCHANGED <<bagRun, sync, bus>>

\* decrementRoomPlayers: the getRoom.
LeaveDecrementRead(s) ==
    /\ leaveTask[s].pc = "decRead"
    /\ leaveTask' = [leaveTask EXCEPT ![s].pc = "decWrite",
                                      ![s].room = getRoom(leaveTask[s].roomId)]
    /\ UNCHANGED <<storeVars, gameStateCache, gameTimers, published,
                   nextPlayerId, nextRoomId, session, joinTask, startTask,
                   gameTask, ticks, inputs, history>>
    /\ UNCHANGED <<bagRun, sync, bus>>

\* decrementRoomPlayers: if the count read is positive, the set of the
\* record that was read with the count lowered by one.
LeaveDecrementWrite(s) ==
    /\ leaveTask[s].pc = "decWrite"
    /\ LET room == leaveTask[s].room
       IN  rooms' = IF room # NoRoom /\ room.currentPlayers > 0
                    THEN Put(rooms, room.id,
                             [room EXCEPT !.currentPlayers = room.currentPlayers - 1])
                    ELSE rooms
    /\ leaveTask' = [leaveTask EXCEPT ![s].pc = "check", ![s].room = NoRoom]
    /\ UNCHANGED <<activeRooms, players, socketKeys, playerGame, gameStateCache,
                   gameTimers, published, nextPlayerId, nextRoomId, session,
                   joinTask, startTask, gameTask, ticks, inputs, history>>
    /\ UNCHANGED <<bagRun, sync, bus>>

\* leaveGameAuto step 3: getRoom, then deleteRoom or updateRoomActivity.
LeaveCheckRoom(s) ==
    /\ leaveTask[s].pc = "check"
    /\ LET room == getRoom(leaveTask[s].roomId)
       IN  leaveTask' = [leaveTask EXCEPT ![s].pc =
                            IF room # NoRoom /\ room.currentPlayers <= 0
                            THEN "delete" ELSE "actRead"]
    /\ UNCHANGED <<storeVars, gameStateCache, gameTimers, published,
                   nextPlayerId, nextRoomId, session, joinTask, startTask,
                   gameTask, ticks, inputs, history>>
    /\ UNCHANGED <<bagRun, sync, bus>>

\* leaveGameAuto has returned for the task's player.
Left(s) ==
    [history EXCEPT !.left = @ \cup {leaveTask[s].playerId},
                    !.leftRunning = @ \cup (IF leaveTask[s].running
                                            THEN {leaveTask[s].playerId} ELSE {})]

\* deleteRoom: del room:{id}, srem active_rooms.  leaveGameAuto returns.
LeaveDeleteRoom(s) ==
    /\ leaveTask[s].pc = "delete"
    /\ rooms' = Del(rooms, leaveTask[s].roomId)
    /\ activeRooms' = activeRooms \ {leaveTask[s].roomId}
    /\ leaveTask' = [leaveTask EXCEPT ![s].pc = "publish"]
    /\ history' = Left(s)
    /\ UNCHANGED <<players, socketKeys, playerGame, gameStateCache, gameTimers,
                   published, nextPlayerId, nextRoomId, session, joinTask,
                   startTask, gameTask, ticks, inputs>>
    /\ UNCHANGED <<bagRun, sync, bus>>

\* updateRoomActivity: the getRoom.
LeaveActivityRead(s) ==
    /\ leaveTask[s].pc = "actRead"
    /\ leaveTask' = [leaveTask EXCEPT ![s].pc = "actWrite",
                                      ![s].room = getRoom(leaveTask[s].roomId)]
    /\ UNCHANGED <<storeVars, gameStateCache, gameTimers, published,
                   nextPlayerId, nextRoomId, session, joinTask, startTask,
                   gameTask, ticks, inputs, history>>
    /\ UNCHANGED <<bagRun, sync, bus>>

\* updateRoomActivity: the set of the record that was read.  leaveGameAuto
\* returns.
LeaveActivityWrite(s) ==
    /\ leaveTask[s].pc = "actWrite"
    /\ LET room == leaveTask[s].room
       IN  rooms' = IF room = NoRoom THEN rooms ELSE Put(rooms, room.id, room)
    /\ leaveTask' = [leaveTask EXCEPT ![s].pc = "publish", ![s].room = NoRoom]
    /\ history' = Left(s)
    /\ UNCHANGED <<activeRooms, players, socketKeys, playerGame, gameStateCache,
                   gameTimers, published, nextPlayerId, nextRoomId, session,
                   joinTask, startTask, gameTask, ticks, inputs>>
    /\ UNCHANGED <<bagRun, sync, bus>>

\* The rest of the leaveAutoRoom handler: publishPlayerStateChanged and the
\* roster reads for the room update.
LeavePublish(s) ==
    /\ leaveTask[s].pc = "publish"
    /\ PublishPlayerStateChanged(leaveTask[s].roomId)
    /\ leaveTask' = [leaveTask EXCEPT ![s] = IdleLeave]
    /\ UNCHANGED <<storeVars, gameTimers, nextPlayerId, nextRoomId, session,
                   joinTask, startTask, gameTask, ticks, inputs, history>>
    /\ UNCHANGED <<bagRun, sync, bus>>

(***************************************************************************)
(* updateRoomStatus, as startRoomGame and autoStartGame call it            *)
(***************************************************************************)

\* updateRoomStatus: the getRoom.
StatusRead(s, roomId) ==
    /\ startTask[s].pc = "statusRead"
    /\ startTask' = [startTask EXCEPT ![s].pc = "statusWrite",
                                      ![s].room = getRoom(roomId)]

\* updateRoomStatus writing a record built anew from the id, the status and
\* the player count, without the seed of the record read.
StatusWriteFresh(s, status) ==
    /\ startTask[s].pc = "statusWrite"
    /\ LET room == startTask[s].room
       IN  rooms' = IF room = NoRoom THEN rooms
                    ELSE Put(rooms, room.id,
                             [NoRoom EXCEPT !.id = room.id, !.status = status,
                                            !.currentPlayers = room.currentPlayers])

\* updateRoomStatus: room.status = status and the set of the record read.
StatusWrite(s, status) ==
    /\ startTask[s].pc = "statusWrite"
    /\ LET room == startTask[s].room
       IN  rooms' = IF room = NoRoom THEN rooms
                    ELSE Put(rooms, room.id, [room EXCEPT !.status = status])

(***************************************************************************)
(* Gravity timers                                                          *)
(***************************************************************************)

\* stopGameTimer: clearInterval and delete the map entry, if there is one.
\* calculateDropInterval, in microseconds rounded down: 1000 ms up to level
\* 0, 50 ms from level 29, and between them
\* Math.pow(0.8 - (level - 1) * 0.007, level - 1) * 1000 kept within 50 and
\* 1000 ms.  The table holds the values of that product for levels 1 to 28.
calculateDropInterval(level) ==
    LET baseInterval ==
            <<1000000, 793000, 617796, 472729, 355196, 262003, 189677,
              134734, 93882, 64151, 42976, 28217, 18153, 11439,
              7058, 4263, 2520, 1457, 823, 455, 245,
              129, 66, 33, 16, 7, 3, 1>>
        least == 50000
        most  == 1000000
    IN  IF level <= 0 THEN most
        ELSE IF level >= 29 THEN least
        ELSE IF baseInterval[level] < least THEN least
        ELSE IF baseInterval[level] > most THEN most
        ELSE baseInterval[level]

stopGameTimer(timers, p) == Del(timers, p)

\* restartGameTimerWithLevel: stop the prior timer, then set a new interval
\* whose period is calculateDropInterval(level).
restartGameTimerWithLevel(timers, p, level) ==
    Put(stopGameTimer(timers, p), p, [level |-> level])

(***************************************************************************)
(* publishGameStateUpdate                                                  *)
(***************************************************************************)

StateMsg(p, st) ==
    [channel |-> "game_state_update", id |-> p, type |-> "game_state_update",
     gameOver |-> st.gameOver]

\* publishGameStateUpdateInternal: a state without a current piece that is
\* not game over gets a piece drawn and is stored; then the update is
\* published.  The result gives the record to store, if any.
PublishInternal(p, st) ==
    IF ~HasPiece(st) /\ ~st.gameOver
    THEN Let(getNextPiece(st), LAMBDA d1 :
         Let(createTetrisBlock(d1.type), LAMBDA piece :
         Let([d1.st EXCEPT !.currentPiece = piece,
                           !.ghostPiece = getGhostPiece(piece, st.board),
                           !.nextPiece = getNextPiece(d1.st).type], LAMBDA upd :
             [write |-> TRUE, st |-> upd, msgs |-> {StateMsg(p, upd)}])))
    ELSE [write |-> FALSE, st |-> st, msgs |-> {StateMsg(p, st)}]

\* publishGameStateUpdate: a started state without a current piece gets the
\* next piece materialised and is stored first; createTetrisBlock throws on
\* a null type, which the method catches, publishing nothing.
PublishGameStateUpdate(p, st) ==
    IF st.gameStarted /\ ~HasPiece(st)
    THEN IF st.nextPiece = Null
         THEN [write |-> FALSE, st |-> st, msgs |-> {}]
         ELSE Let(createTetrisBlock(st.nextPiece), LAMBDA piece :
              Let(getNextPiece(st), LAMBDA d :
              Let([d.st EXCEPT !.currentPiece = piece,
                               !.nextPiece = d.type,
                               !.ghostPiece = getGhostPiece(piece, st.board)], LAMBDA upd :
                  [write |-> TRUE, st |-> upd, msgs |-> {StateMsg(p, upd)}])))
    ELSE PublishInternal(p, st)

(***************************************************************************)
(* startRoomGame                                                           *)
(***************************************************************************)

MaxStartsPerSocket == 1

\* The handler receives {roomId}.  startRoomGame: getRoom and getRoomPlayers;
\* a missing room or an empty roster throws and the handler answers with an
\* error.
BeginStart(s, most) ==
    /\ session[s].connected
    /\ session[s].roomId # 0
    /\ startTask[s].pc = "idle"
    /\ history.starts[s] < most
    /\ LET roomId == session[s].roomId
           roster == ReadersOf(roomId)
       IN  /\ gameStateCache' = CacheAfterReads(gameStateCache, roster)
           /\ startTask' = [startTask EXCEPT ![s] =
                               IF roster = {} THEN IdleStart
                               ELSE [IdleStart EXCEPT !.pc = "statusRead",
                                                      !.roomId = roomId,
                                                      !.pending = roster]]
    /\ history' = [history EXCEPT !.starts[s] = @ + 1]
    /\ UNCHANGED <<storeVars, gameTimers, published, nextPlayerId, nextRoomId,
                   session, joinTask, leaveTask, gameTask, ticks, inputs>>
    /\ UNCHANGED <<bagRun, sync, bus>>

StartBegin(s) == BeginStart(s, MaxStartsPerSocket)

StartStatusRead(s) ==
    /\ StatusRead(s, startTask[s].roomId)
    /\ UNCHANGED <<storeVars, gameStateCache, gameTimers, published,
                   nextPlayerId, nextRoomId, session, joinTask, leaveTask,
                   gameTask, ticks, inputs, history>>
    /\ UNCHANGED <<bagRun, sync, bus>>

StartStatusWrite(s) ==
    /\ StatusWrite(s, "PLAYING")
    /\ startTask' = [startTask EXCEPT ![s].pc = "players", ![s].room = NoRoom]
    /\ UNCHANGED <<activeRooms, players, socketKeys, playerGame, gameStateCache,
                   gameTimers, published, nextPlayerId, nextRoomId, session,
                   joinTask, leaveTask, gameTask, ticks, inputs, history>>
    /\ UNCHANGED <<bagRun, sync, bus>>

\* startPlayerGame for one player of the roster: read the room and the
\* existing state (for its seed), store the started state, restart the timer
\* at level 1, publish the state and game_started.  A missing room throws,
\* which startPlayerGame catches and logs.
StartPlayer(s) ==
    /\ startTask[s].pc = "players"
    /\ \E p \in startTask[s].pending :
        LET roomId   == startTask[s].roomId
            room     == getRoom(roomId)
            existing == getPlayerGameState(p)
        IN  /\ startTask' = [startTask EXCEPT ![s].pending = @ \ {p}]
            /\ IF room = NoRoom
               THEN UNCHANGED <<playerGame, gameStateCache, gameTimers, published>>
               ELSE \E c \in CharCodes :
                    \E st \in {StartedGameState(p, roomId,
                                    IF existing # NoState THEN existing.gameSeed
                                    ELSE room.roomSeed + c)} :
                    \E pub \in {PublishGameStateUpdate(p, st)} :
                        /\ playerGame' = Put(playerGame, p, st)
                        /\ gameStateCache' = CacheAfterReads(gameStateCache, {p})
                        /\ gameTimers' = restartGameTimerWithLevel(gameTimers, p, st.level)
                        /\ published' = published \cup pub.msgs
                                           \cup {Msg("game_started", p, "game_started")}
    /\ UNCHANGED <<rooms, activeRooms, players, socketKeys, nextPlayerId,
                   nextRoomId, session, joinTask, leaveTask, gameTask, ticks,
                   inputs, history>>
    /\ UNCHANGED <<bagRun, sync, bus>>

\* The rest of the startRoomGame handler: the roster read for the seed of
\* the roomGameStarted message.
StartFinish(s) ==
    /\ startTask[s].pc = "players"
    /\ startTask[s].pending = {}
    /\ gameStateCache' = CacheAfterReads(gameStateCache, ReadersOf(startTask[s].roomId))
    /\ startTask' = [startTask EXCEPT ![s] = IdleStart]
    /\ UNCHANGED <<storeVars, gameTimers, published, nextPlayerId, nextRoomId,
                   session, joinTask, leaveTask, gameTask, ticks, inputs, history>>
    /\ UNCHANGED <<bagRun, sync, bus>>

(***************************************************************************)
(* handlePlayerInput and the timer callback                                *)
(***************************************************************************)

\* The validActions list of the gateway; the cases of the switch of
\* handlePlayerInputServerOnly are the same six.
ValidActions == {"moveLeft", "moveRight", "moveDown", "rotate", "hardDrop", "hold"}

\* Actions of the validActions list the model's clients send.
Actions == {"hardDrop", "moveDown"}

InputKey(s) == <<"input", s>>
TickKey(p) == <<"tick", p>>

NewTask(p, action) ==
    [pc |-> "apply", playerId |-> p, action |-> action, base |-> NoState,
     st |-> NoState, locked |-> FALSE, ret |-> "done", hs |-> NoState]

Absent(st) == st = NoState

\* The test without its gameOver half.
IgnoredIfAbsent(st) == Absent(st)

\* !playerState || playerState.gameOver: the test of the gateway, of
\* handlePlayerInputServerOnly and of autoDropPiece.
Ignored(st) == Absent(st) \/ st.gameOver

\* Gateway handlePlayerInput up to its call of handlePlayerInputServerOnly:
\* an action outside validActions ends the handler with a log line; else
\* the player state is read, and a missing or game-over state ends the
\* handler with a log line.
ReceiveInput(s, action, most) ==
    /\ session[s].connected
    /\ session[s].playerId # 0
    /\ ~Has(gameTask, InputKey(s))
    /\ inputs < most
    /\ inputs' = inputs + 1
    /\ LET p  == session[s].playerId
           st == getPlayerGameState(p)
       IN  IF action \notin ValidActions
           THEN /\ UNCHANGED <<gameStateCache, gameTask>>
                /\ history' = [history EXCEPT !.rejected = @ \cup {<<p, "invalid">>}]
           ELSE /\ gameStateCache' = CacheAfterReads(gameStateCache, {p})
                /\ gameTask' = IF Ignored(st) THEN gameTask
                               ELSE Put(gameTask, InputKey(s), NewTask(p, action))
                /\ history' = IF ~Absent(st) /\ st.gameOver
                               THEN [history EXCEPT !.rejected = @ \cup {<<p, "over">>}]
                               ELSE history
    /\ UNCHANGED <<storeVars, gameTimers, published, nextPlayerId, nextRoomId,
                   session, joinTask, leaveTask, startTask, ticks>>
    /\ UNCHANGED <<bagRun, sync, bus>>

\* The same handler with the playerId of the message, whatever socket sent
\* it: const { playerId, action } = data.
InputMessage(s, playerId, action, most) ==
    /\ session[s].connected
    /\ ~Has(gameTask, InputKey(s))
    /\ inputs < most
    /\ inputs' = inputs + 1
    /\ LET st == getPlayerGameState(playerId)
       IN  /\ gameStateCache' = CacheAfterReads(gameStateCache, {playerId})
           /\ gameTask' = IF Ignored(st) THEN gameTask
                          ELSE Put(gameTask, InputKey(s), NewTask(playerId, action))
           /\ history' = IF ~Absent(st) /\ st.gameOver
                          THEN [history EXCEPT !.rejected = @ \cup {<<playerId, "over">>}]
                          ELSE history
    /\ UNCHANGED <<storeVars, gameTimers, published, nextPlayerId, nextRoomId,
                   session, joinTask, leaveTask, startTask, ticks>>
    /\ UNCHANGED <<bagRun, sync, bus>>

\* The timer callback up to its call of autoDropPiece: the player state is
\* read; a missing or game-over state stops the timer.
FireTick(p, most) ==
    /\ Has(gameTimers, p)
    /\ ~Has(gameTask, TickKey(p))
    /\ ticks < most
    /\ ticks' = ticks + 1
    /\ LET st == getPlayerGameState(p)
       IN  /\ gameStateCache' = CacheAfterReads(gameStateCache, {p})
           /\ IF Absent(st) \/ st.gameOver
              THEN /\ gameTimers' = stopGameTimer(gameTimers, p)
                   /\ UNCHANGED gameTask
              ELSE /\ gameTask' = Put(gameTask, TickKey(p), NewTask(p, "tick"))
                   /\ UNCHANGED gameTimers
    /\ history' = [history EXCEPT !.ticked = @ \cup {p}]
    /\ UNCHANGED <<storeVars, published, nextPlayerId, nextRoomId, session,
                   joinTask, leaveTask, startTask, inputs>>
    /\ UNCHANGED <<bagRun, sync, bus>>

InputReceive(s, action) == ReceiveInput(s, action, MaxInputs)
TickFire(p) == FireTick(p, MaxTicks)

\* Timers after the lock pipeline: restarted if the level changed, stopped
\* if the game is over.
TimersAfter(timers, p, old, r) ==
    LET t1 == IF r.locked /\ r.st.level # old.level
              THEN restartGameTimerWithLevel(timers, p, r.st.level) ELSE timers
    IN  IF r.locked /\ r.st.gameOver THEN stopGameTimer(t1, p) ELSE t1

\* The task holding the other kind of mutation of the same player between
\* its read and its write, having read the same state: an overlap.
Overlapping(k, p, st) ==
    {j \in DOMAIN gameTask \ {k} :
        /\ gameTask[j].playerId = p
        /\ j[1] # k[1]
        /\ j[1] \in {"input", "tick"}
        /\ gameTask[j].pc = "write"
        /\ gameTask[j].base = st}

\* handlePlayerInputServerOnly / autoDropPiece from the read of the state to
\* the first await after the computation.  k is the task's key.
TaskApply(k) ==
    /\ Has(gameTask, k)
    /\ gameTask[k].pc = "apply"
    /\ \E p \in {gameTask[k].playerId} : \E st \in {getPlayerGameState(p)} :
       LET tick == k[1] = "tick"
           stop == \/ Ignored(st)
                   \/ (tick /\ ~HasPiece(st))
                   \/ (~tick /\ HoldThrows(st, gameTask[k].action))
                   \/ (~tick /\ gameTask[k].action \notin ValidActions)
       IN  \E r \in {IF stop THEN [st |-> st, locked |-> FALSE]
                     ELSE IF tick THEN AutoDrop(st)
                     ELSE ApplyAction(st, gameTask[k].action)} :
           /\ gameStateCache' = CacheAfterReads(gameStateCache, {p})
           /\ IF stop
              THEN /\ gameTask' = Del(gameTask, k)
                   /\ UNCHANGED <<gameTimers, history>>
              ELSE /\ gameTimers' = TimersAfter(gameTimers, p, st, r)
                   /\ gameTask' = [gameTask EXCEPT
                         ![k].base = st, ![k].st = r.st, ![k].locked = r.locked,
                         ![k].pc = IF r.locked /\ r.st.gameOver THEN "over" ELSE "write",
                         ![k].ret = "write"]
                   /\ history' =
                        IF r.locked /\ r.st.gameOver
                        THEN [history EXCEPT !.race = Del(@, p),
                                             !.over = @ \cup {<<p, st.roomId>>},
                                             !.final = Put(@, p, r.st)]
                        ELSE IF Overlapping(k, p, st) # {}
                        THEN [history EXCEPT !.race = Put(@, p,
                                [base |-> st,
                                 action |-> IF tick
                                            THEN gameTask[CHOOSE j \in Overlapping(k, p, st) : TRUE].action
                                            ELSE gameTask[k].action,
                                 writes |-> 0, result |-> NoState])]
                        ELSE [history EXCEPT !.race = Del(@, p)]
    /\ UNCHANGED <<storeVars, published, nextPlayerId, nextRoomId, session,
                   joinTask, leaveTask, startTask, ticks, inputs>>
    /\ UNCHANGED <<bagRun, sync, bus>>

InputApply(s) == TaskApply(InputKey(s))
TickApply(p) == TaskApply(TickKey(p))

\* Where a task goes after handleGameOver returns.
AfterGameOver(k) ==
    IF gameTask[k].ret = "done" THEN Del(gameTask, k)
    ELSE [gameTask EXCEPT ![k].pc = gameTask[k].ret, ![k].hs = NoState]

\* handleGameOver up to the end of updatePlayerStats: read the state (return
\* if missing), stop the timer, read the player (throw if missing), add the
\* stats to the player record, update the durable row.  The durable update
\* either succeeds or throws; every throw is caught by handleGameOver, which
\* then returns without publishing or clearing anything.
GameOverBegin(k) ==
    /\ Has(gameTask, k)
    /\ gameTask[k].pc = "over"
    /\ LET p  == gameTask[k].playerId
           hs == getPlayerGameState(p)
       IN  /\ gameStateCache' = CacheAfterReads(gameStateCache, {p})
           /\ IF Absent(hs)
              THEN /\ gameTask' = AfterGameOver(k)
                   /\ UNCHANGED <<gameTimers, players>>
              ELSE /\ gameTimers' = stopGameTimer(gameTimers, p)
                   /\ IF ~Has(players, p)
                      THEN /\ gameTask' = AfterGameOver(k)
                           /\ UNCHANGED players
                      ELSE /\ players' = [players EXCEPT
                                 ![p].score = @ + hs.score,
                                 ![p].linesCleared = @ + hs.linesCleared,
                                 ![p].level = hs.level]
                           /\ \E durableOk \in BOOLEAN :
                                gameTask' = IF durableOk
                                            THEN [gameTask EXCEPT ![k].pc = "overPublish",
                                                                  ![k].hs = hs]
                                            ELSE AfterGameOver(k)
    /\ UNCHANGED <<rooms, activeRooms, socketKeys, playerGame, published,
                   nextPlayerId, nextRoomId, session, joinTask, leaveTask,
                   startTask, ticks, inputs, history>>
    /\ UNCHANGED <<bagRun, sync, bus>>

\* handleGameOver, the publishes: playerGameOver on game:{roomId}, the
\* gameOver message on game_state_update:{playerId}, publishGameStateUpdate
\* of the state with gameOver set and the pieces nulled, and
\* publishPlayerStateChanged.
GameOverPublish(k) ==
    /\ Has(gameTask, k)
    /\ gameTask[k].pc = "overPublish"
    /\ \E pub \in {PublishGameStateUpdate(gameTask[k].playerId,
                     [gameTask[k].hs EXCEPT !.gameOver = TRUE, !.currentPiece = NoPiece,
                                            !.ghostPiece = NoPiece, !.nextPiece = Null])} :
       LET p   == gameTask[k].playerId
           hs  == gameTask[k].hs
       IN  /\ playerGame' = IF pub.write THEN Put(playerGame, p, pub.st) ELSE playerGame
           /\ gameStateCache' = CacheAfterReads(gameStateCache, ReadersOf(hs.roomId))
           /\ published' = published \cup pub.msgs \cup
                  {Msg("game", hs.roomId, "playerGameOver"),
                   [Msg("game_state_update", p, "gameOver") EXCEPT !.gameOver = TRUE],
                   Msg("player_state_changed", hs.roomId, "players")}
    /\ gameTask' = [gameTask EXCEPT ![k].pc = "overCleanup"]
    /\ UNCHANGED <<rooms, activeRooms, players, socketKeys, gameTimers,
                   nextPlayerId, nextRoomId, session, joinTask, leaveTask,
                   startTask, ticks, inputs, history>>
    /\ UNCHANGED <<bagRun, sync, bus>>

\* handleGameOver, last await: cleanupPlayerGameState.
GameOverCleanup(k) ==
    /\ Has(gameTask, k)
    /\ gameTask[k].pc = "overCleanup"
    /\ playerGame' = Del(playerGame, gameTask[k].playerId)
    /\ gameTask' = AfterGameOver(k)
    /\ history' = [history EXCEPT !.cleared = @ \cup {gameTask[k].playerId}]
    /\ UNCHANGED <<rooms, activeRooms, players, socketKeys, gameStateCache,
                   gameTimers, published, nextPlayerId, nextRoomId, session,
                   joinTask, leaveTask, startTask, ticks, inputs>>
    /\ UNCHANGED <<bagRun, sync, bus>>

\* updatePlayerGameState(playerId, updatedState): read the state through the
\* cache; if there is none, throw, which the method itself catches; else
\* store {...gameState, ...updatedState}, which is updatedState since it
\* carries every field, and invalidate the cache entry.
TaskWrite(k) ==
    /\ Has(gameTask, k)
    /\ gameTask[k].pc = "write"
    /\ LET p  == gameTask[k].playerId
           gs == getPlayerGameState(p)
           stored == IF Absent(gs) THEN playerGame ELSE Put(playerGame, p, gameTask[k].st)
       IN  /\ playerGame' = stored
           /\ gameStateCache' = IF Absent(gs) THEN gameStateCache
                                ELSE invalidateCache(gameStateCache, p)
           /\ history' =
                IF Has(history.race, p)
                THEN [history EXCEPT !.race[p].writes = @ + 1,
                                     !.race[p].result =
                                        IF Has(stored, p) THEN stored[p] ELSE NoState]
                ELSE history
    /\ gameTask' = [gameTask EXCEPT ![k].pc = "publish"]
    /\ UNCHANGED <<rooms, activeRooms, players, socketKeys, gameTimers,
                   published, nextPlayerId, nextRoomId, session, joinTask,
                   leaveTask, startTask, ticks, inputs>>
    /\ UNCHANGED <<bagRun, sync, bus>>

\* The awaits after the write: publishGameStateUpdate(updatedState) and,
\* except on the auto-drop's plain move and in the repair operations,
\* publishPlayerStateChanged.  The gateway's handlePlayerInput then calls
\* handleGameOver again if updatedState.gameOver.
TaskPublish(k) ==
    /\ Has(gameTask, k)
    /\ gameTask[k].pc = "publish"
    /\ \E pub \in {PublishGameStateUpdate(gameTask[k].playerId, gameTask[k].st)} :
       LET p      == gameTask[k].playerId
           st     == gameTask[k].st
           tick   == k[1] = "tick"
           roster == (tick /\ ~gameTask[k].locked) \/ k[1] = "repair"
           stored == IF pub.write THEN Put(playerGame, p, pub.st) ELSE playerGame
       IN  /\ playerGame' = stored
           /\ gameStateCache' = IF roster THEN gameStateCache
                                ELSE CacheAfterReads(gameStateCache, ReadersOf(st.roomId))
           /\ published' = published \cup pub.msgs \cup
                  (IF roster THEN {}
                   ELSE {Msg("player_state_changed", st.roomId, "players")})
           /\ gameTask' = IF k[1] = "input" /\ st.gameOver
                          THEN [gameTask EXCEPT ![k].pc = "over", ![k].ret = "done"]
                          ELSE Del(gameTask, k)
    /\ UNCHANGED <<rooms, activeRooms, players, socketKeys, gameTimers,
                   nextPlayerId, nextRoomId, session, joinTask, leaveTask,
                   startTask, ticks, inputs, history>>
    /\ UNCHANGED <<bagRun, sync, bus>>

(***************************************************************************)
(* Disconnect, cache expiry                                                *)
(***************************************************************************)

\* GameService.leaveGame(playerId): the player record is read by the id
\* given; a missing record throws PlayerNotFoundException; else the record
\* is deleted.  It touches neither room:{id}, player_game:{id} nor a timer.
leaveGame(id) == IF Has(players, id) THEN Del(players, id) ELSE players

\* The player whose join through socket s has completed, 0 if none.
BoundPlayer(s) ==
    IF Has(socketKeys, s) /\ socketKeys[s] \in history.joined
    THEN socketKeys[s] ELSE 0

\* handleDisconnect: log, and in the gateway that acts at all, call
\* gameService.leaveGame(client.id) without awaiting it.  The argument is
\* the socket id.
HandleDisconnect(s) ==
    /\ session[s].connected
    /\ session' = [session EXCEPT ![s].connected = FALSE]
    /\ players' = leaveGame(s)
    /\ history' = [history EXCEPT !.disconnected = @ \cup {<<s, BoundPlayer(s)>>}]
    /\ UNCHANGED <<rooms, activeRooms, socketKeys, playerGame, gameStateCache,
                   gameTimers, published, nextPlayerId, nextRoomId, joinTask,
                   leaveTask, startTask, gameTask, ticks, inputs>>
    /\ UNCHANGED <<bagRun, sync, bus>>

\* CACHE_TTL milliseconds pass since an entry was stored: it stays in the
\* map but getPlayerGameState no longer returns it.
CacheExpire(p) ==
    /\ CacheFresh(p)
    /\ gameStateCache' = [gameStateCache EXCEPT ![p] = Expired]
    /\ UNCHANGED <<storeVars, gameTimers, published, nextPlayerId, nextRoomId,
                   session, joinTask, leaveTask, startTask, gameTask, ticks,
                   inputs, history>>
    /\ UNCHANGED <<bagRun, sync, bus>>

(***************************************************************************)
(* Initial states and specifications                                       *)
(***************************************************************************)

FirstPlayerId == 1

\* NetworkSyncService before any join_game: no client state, no input event.
NoSync ==
    [clientStates |-> EmptyMap, pending |-> <<>>, stored |-> {},
     accepted |-> EmptyMap, rejected |-> {}, events |-> 0]

\* The subscriptions set up by the gateway, no message received yet.
NoBus == [queue |-> <<>>, sent |-> 0, handled |-> {}, logged |-> {},
          escaped |-> {}, down |-> FALSE]

\* No call of generateNewBagWithSeed is between two of its steps.
NoBagRun == [pc |-> "idle", seed |-> 0, state |-> 0, bag |-> TetrominoTypes,
             i |-> 0, j |-> 0]

NoHistory ==
    [joined |-> {}, left |-> {}, leftRunning |-> {}, disconnected |-> {}, ticked |-> {},
     cleared |-> {}, over |-> {}, race |-> EmptyMap,
     starts |-> [s \in Sockets |-> 0], client |-> 0, repairs |-> {},
     created |-> EmptyMap, rejected |-> {}, shutdown |-> FALSE,
     tickFailed |-> {}, final |-> EmptyMap, notMember |-> {}]

IdleServer(past) ==
    /\ session = [s \in Sockets |-> NoSession]
    /\ joinTask = [s \in Sockets |-> IdleJoin]
    /\ leaveTask = [s \in Sockets |-> IdleLeave]
    /\ startTask = [s \in Sockets |-> IdleStart]
    /\ gameTask = EmptyMap
    /\ ticks = 0
    /\ inputs = 0
    /\ history = past
    /\ gameStateCache = EmptyMap
    /\ gameTimers = EmptyMap
    /\ published = {}

InitTasks == IdleServer(NoHistory)

\* The server after construction: an empty store, no timers, no cache.
Init ==
    /\ InitTasks
    /\ rooms = EmptyMap
    /\ activeRooms = {}
    /\ players = EmptyMap
    /\ socketKeys = EmptyMap
    /\ playerGame = EmptyMap
    /\ nextPlayerId = FirstPlayerId
    /\ nextRoomId = 1
    /\ bagRun = NoBagRun
    /\ sync = NoSync
    /\ bus = NoBus

JoinSteps(s) ==
    \/ JoinFindRoom(s)
    \/ JoinCreateRoom(s)
    \/ JoinCreatePlayer(s)
    \/ JoinIncrementRead(s)
    \/ JoinIncrementWrite(s)
    \/ JoinInitState(s)
    \/ JoinActivityRead(s)
    \/ JoinActivityWrite(s)
    \/ JoinPublish(s)

LeaveSteps(s) ==
    \/ LeaveCleanup(s)
    \/ LeaveDeletePlayer(s)
    \/ LeaveDecrementRead(s)
    \/ LeaveDecrementWrite(s)
    \/ LeaveCheckRoom(s)
    \/ LeaveDeleteRoom(s)
    \/ LeaveActivityRead(s)
    \/ LeaveActivityWrite(s)
    \/ LeavePublish(s)

StartSteps(s) ==
    \/ StartBegin(s)
    \/ StartStatusRead(s)
    \/ StartStatusWrite(s)
    \/ StartPlayer(s)
    \/ StartFinish(s)

\* Input and tick steps up to a lock that ends the game.
PlaySteps ==
    \/ \E s \in GameSockets, a \in Actions : InputReceive(s, a)
    \/ \E s \in GameSockets : InputApply(s)
    \/ \E p \in DOMAIN gameTimers : TickFire(p)
    \/ \E k \in DOMAIN gameTask : k[1] = "tick" /\ TickApply(k[2])
    \/ \E k \in DOMAIN gameTask : TaskWrite(k)
    \/ \E k \in DOMAIN gameTask : TaskPublish(k)

GameOverSteps ==
    \/ \E k \in DOMAIN gameTask : GameOverBegin(k)
    \/ \E k \in DOMAIN gameTask : GameOverPublish(k)
    \/ \E k \in DOMAIN gameTask : GameOverCleanup(k)

\* One client from connection to leave or disconnect.  MaxInputs locks do
\* not fill the board, so no game ends within this specification.
Next ==
    \/ \E s \in GameSockets : JoinSteps(s)
    \/ \E s \in GameSockets : LeaveSteps(s)
    \/ \E s \in GameSockets : StartSteps(s)
    \/ PlaySteps
    \/ \E s \in GameSockets : HandleDisconnect(s)
    \/ \E p \in DOMAIN gameStateCache : CacheExpire(p)

Spec == Init /\ [][Next]_vars

(***************************************************************************)
(* The end of a game                                                       *)
(***************************************************************************)

\* Hard drops the player has completed, one after the other, before the
\* specification of the end of a game starts.
PlayedDrops == 10

\* The state after at most n hard drops from st, stopping before one that
\* would end the game.
RECURSIVE HardDrops(_, _)
HardDrops(st, n) ==
    IF n = 0 THEN st
    ELSE Let(ApplyAction(st, "hardDrop").st, LAMBDA r :
             IF r.gameOver THEN st ELSE HardDrops(r, n - 1))

ResidentSocket(p) == 2000 + p

\* The server after one client has joined room 1, started the game and sent
\* PlayedDrops hard drops, each handled to its end before the next and
\* before the first tick; then, in some runs, a second player has joined the
\* room from a connection that sends nothing more.  The roster reads of the
\* handlers left the states in the cache.
InitOver ==
    \E s \in GameSockets, seed \in Seeds, roomSeed \in RoomSeeds, others \in 0..1 :
        LET p     == FirstPlayerId
            st    == HardDrops(StartedGameState(p, 1, seed), PlayedDrops)
            late  == (p + 1) .. (p + others)
            fresh == [q \in late |-> InitialGameState(q, 1, seed)]
        IN  /\ rooms = (1 :> [id |-> 1, status |-> "PLAYING",
                              currentPlayers |-> 1 + others, roomSeed |-> roomSeed])
            /\ activeRooms = {1}
            /\ players = (p :> NewPlayer(1, s))
                            @@ [q \in late |-> NewPlayer(1, ResidentSocket(q))]
            /\ socketKeys = (s :> p)
                            @@ [k \in {ResidentSocket(q) : q \in late} |-> k - 2000]
            /\ playerGame = (p :> st) @@ fresh
            /\ gameStateCache = (p :> st) @@ fresh
            /\ gameTimers = restartGameTimerWithLevel(EmptyMap, p, st.level)
            /\ published = {Msg("player_state_changed", 1, "players"),
                            Msg("game_started", p, "game_started"),
                            StateMsg(p, st)}
            /\ nextPlayerId = p + 1 + others
            /\ nextRoomId = 2
            /\ session = [t \in Sockets |->
                            IF t = s THEN [NoSession EXCEPT !.roomId = 1,
                                                           !.playerId = p,
                                                           !.joins = 1]
                            ELSE NoSession]
            /\ joinTask = [t \in Sockets |-> IdleJoin]
            /\ leaveTask = [t \in Sockets |-> IdleLeave]
            /\ startTask = [t \in Sockets |-> IdleStart]
            /\ gameTask = EmptyMap
            /\ ticks = 0
            /\ inputs = 0
            /\ history = [NoHistory EXCEPT !.joined = {p} \cup late, !.starts[s] = 1,
                                           !.created = (1 :> roomSeed)]
            /\ bagRun = NoBagRun
            /\ sync = NoSync
            /\ bus = NoBus

NextOver ==
    \/ PlaySteps
    \/ GameOverSteps
    \/ \E s \in GameSockets : LeaveSteps(s)
    \/ \E p \in DOMAIN gameStateCache : CacheExpire(p)

SpecOver == InitOver /\ [][NextOver]_vars

\* Actions outside validActions a client may send: the action of a message
\* is any string.
InvalidActions == {"dance"}

\* Inputs one run receives, those with an unknown action included.
MaxSentInputs == 3

\* The end of a game, with a client that also sends actions the server
\* does not know.
NextInput ==
    \/ NextOver
    \/ \E s \in GameSockets, a \in InvalidActions : ReceiveInput(s, a, MaxSentInputs)

SpecInput == InitOver /\ [][NextInput]_vars

(***************************************************************************)
(* Rooms under concurrent joins and leaves                                 *)
(***************************************************************************)

ResidentIds == FirstPlayerId .. (FirstPlayerId + Residents - 1)

\* The server with Residents players seated in room 1, who joined one after
\* the other longer than CACHE_TTL ago and have not started a game.
InitResidents ==
    /\ \E roomSeed \in RoomSeeds :
         /\ IdleServer([NoHistory EXCEPT !.created = (1 :> roomSeed)])
         /\ rooms = (1 :> [id |-> 1, status |-> "WAITING",
                           currentPlayers |-> Residents, roomSeed |-> roomSeed])
    /\ activeRooms = {1}
    /\ players = [p \in ResidentIds |-> NewPlayer(1, ResidentSocket(p))]
    /\ socketKeys = [k \in {ResidentSocket(p) : p \in ResidentIds} |-> k - 2000]
    /\ \E seed \in Seeds :
         playerGame = [p \in ResidentIds |-> InitialGameState(p, 1, seed)]
    /\ nextPlayerId = FirstPlayerId + Residents
    /\ nextRoomId = 2
    /\ bagRun = NoBagRun
    /\ sync = NoSync
    /\ bus = NoBus

\* The room manager starts empty or with Residents seated.
InitRoom ==
    \/ Init
    \/ InitResidents

NextRoom ==
    \/ \E s \in Sockets : JoinSteps(s)
    \/ \E s \in Sockets : LeaveSteps(s)

SpecRoom == InitRoom /\ [][NextRoom]_vars

(***************************************************************************)
(* Client messages that write or repair a state                            *)
(***************************************************************************)

\* updatePlayerGameState, fixGameStateSync and forceGameOverState messages
\* the clients send in one run.
MaxClientMessages == 1

\* Payloads of the updatePlayerGameState message: any object is accepted.
ClientUpdates ==
    {[score |-> 999999, linesCleared |-> 40],
     [board |-> createEmptyBoard, currentPiece |-> createTetrisBlock("I")],
     [tetrominoBag |-> <<"I", "I">>, bagIndex |-> 9]}

\* {...gameState, ...updates}
Merge(gameState, updates) ==
    [f \in DOMAIN gameState |->
        IF f \in DOMAIN updates THEN updates[f] ELSE gameState[f]]

\* Gateway handleUpdatePlayerGameState: updatePlayerGameState(data.playerId,
\* data.updates) with the ids and the payload of the message as they came.
UpdateStateMessage(s, p, updates) ==
    /\ session[s].connected
    /\ history.client < MaxClientMessages
    /\ LET gs == getPlayerGameState(p)
       IN  /\ playerGame' = IF Absent(gs) THEN playerGame
                            ELSE Put(playerGame, p, Merge(gs, updates))
           /\ gameStateCache' = IF Absent(gs) THEN CacheAfterReads(gameStateCache, {p})
                                ELSE invalidateCache(gameStateCache, p)
    /\ history' = [history EXCEPT !.client = @ + 1]
    /\ UNCHANGED <<rooms, activeRooms, players, socketKeys, gameTimers,
                   published, nextPlayerId, nextRoomId, session, joinTask,
                   leaveTask, startTask, gameTask, ticks, inputs>>
    /\ UNCHANGED <<bagRun, sync, bus>>

\* updatedState of forceGameOverState.
ForcedState(st) ==
    [st EXCEPT !.gameOver = TRUE, !.currentPiece = NoPiece,
               !.ghostPiece = NoPiece, !.nextPiece = Null]

\* Positions findValidPosition tries, in its order.
SPAWN_RETRIES == <<<<3, 0>>, <<2, 0>>, <<4, 0>>, <<3, 1>>, <<2, 1>>, <<4, 1>>>>

\* findValidPosition: the piece at the first position that is free, NoPiece
\* if there is none.
findValidPosition(piece, board) ==
    LET at(i) == [piece EXCEPT !.x = SPAWN_RETRIES[i][1], !.y = SPAWN_RETRIES[i][2]]
        ok == {i \in 1..Len(SPAWN_RETRIES) : isValidPosition(at(i), board, 0, 0)}
    IN  IF ok = {} THEN NoPiece
        ELSE at(CHOOSE i \in ok : \A j \in ok : i <= j)

\* updatedState of fixGameStateSync, its checks in their order.  fresh is
\* the type the unseeded bag of the core hands out when nextPiece is missing.
FixedState(playerState, fresh) ==
    Let(IF playerState.gameOver /\ HasPiece(playerState)
        THEN [playerState EXCEPT !.currentPiece = NoPiece, !.ghostPiece = NoPiece,
                                 !.nextPiece = Null]
        ELSE playerState, LAMBDA s1 :
    Let(IF HasPiece(s1) /\ ~s1.gameOver
           /\ (s1.ghostPiece = NoPiece \/ s1.ghostPiece.type # s1.currentPiece.type)
        THEN [s1 EXCEPT !.ghostPiece = getGhostPiece(s1.currentPiece, s1.board)]
        ELSE IF ~HasPiece(s1) THEN [s1 EXCEPT !.ghostPiece = NoPiece]
        ELSE s1, LAMBDA s2 :
    Let(IF HasPiece(s2) /\ ~s2.gameOver
           /\ ~isValidPosition(s2.currentPiece, s2.board, 0, 0)
        THEN Let(findValidPosition(s2.currentPiece, s2.board), LAMBDA v :
                 IF v # NoPiece
                 THEN [s2 EXCEPT !.currentPiece = v,
                                 !.ghostPiece = getGhostPiece(v, s2.board)]
                 ELSE [s2 EXCEPT !.currentPiece = NoPiece, !.ghostPiece = NoPiece,
                                 !.gameOver = TRUE])
        ELSE s2, LAMBDA s3 :
    Let(IF s3.nextPiece = Null /\ ~s3.gameOver
        THEN [s3 EXCEPT !.nextPiece = fresh] ELSE s3, LAMBDA s4 :
    Let(IF s4.bagIndex >= Len(s4.tetrominoBag)
        THEN [s4 EXCEPT !.bagNumber = @ + 1,
                        !.tetrominoBag =
                            generateNewBagWithSeed(s4.gameSeed + s4.bagNumber + 1),
                        !.bagIndex = 0]
        ELSE s4, LAMBDA s5 :
    Let(IF HasPiece(s5) THEN [s5 EXCEPT !.gameOver = isGameOver(s5.board)]
        ELSE s5, LAMBDA s6 :
        IF s6.gameOver /\ HasPiece(s6)
        THEN [s6 EXCEPT !.currentPiece = NoPiece, !.ghostPiece = NoPiece,
                        !.nextPiece = Null]
        ELSE s6))))))

RepairKey(s) == <<"repair", s>>

\* Gateway handleForceGameOverState up to the first await of
\* forceGameOverState after its read: the state is read, a missing state
\* ends the handler, else updatePlayerGameState and publishGameStateUpdate
\* follow with the forced state.
ForceGameOverMessage(s, p) ==
    /\ session[s].connected
    /\ history.client < MaxClientMessages
    /\ ~Has(gameTask, RepairKey(s))
    /\ LET st == getPlayerGameState(p)
       IN  /\ gameStateCache' = CacheAfterReads(gameStateCache, {p})
           /\ gameTask' = IF Absent(st) THEN gameTask
                          ELSE Put(gameTask, RepairKey(s),
                                   [NewTask(p, "forceGameOverState") EXCEPT
                                       !.pc = "write", !.base = st,
                                       !.st = ForcedState(st)])
           /\ history' = [history EXCEPT
                             !.client = @ + 1,
                             !.repairs = IF Absent(st) THEN @
                                         ELSE @ \cup {<<"forceGameOverState", p, "client">>}]
    /\ UNCHANGED <<storeVars, gameTimers, published, nextPlayerId, nextRoomId,
                   session, joinTask, leaveTask, startTask, ticks, inputs>>
    /\ UNCHANGED <<bagRun, sync, bus>>

\* Gateway handleFixGameStateSync up to the first await of fixGameStateSync
\* after its read: a missing state ends the handler, and so does a state
\* that needs no repair; else updatePlayerGameState and
\* publishGameStateUpdate follow with the repaired state.
FixGameStateSyncMessage(s, p) ==
    /\ session[s].connected
    /\ history.client < MaxClientMessages
    /\ ~Has(gameTask, RepairKey(s))
    /\ \E st \in {getPlayerGameState(p)} :
       \E fresh \in (IF ~Absent(st) /\ st.nextPiece = Null /\ ~st.gameOver
                     THEN TypeSet ELSE {Null}) :
       \E fixed \in {IF Absent(st) THEN st ELSE FixedState(st, fresh)} :
           /\ gameStateCache' = CacheAfterReads(gameStateCache, {p})
           /\ gameTask' = IF fixed = st THEN gameTask
                          ELSE Put(gameTask, RepairKey(s),
                                   [NewTask(p, "fixGameStateSync") EXCEPT
                                       !.pc = "write", !.base = st, !.st = fixed])
           /\ history' = [history EXCEPT
                             !.client = @ + 1,
                             !.repairs = IF Absent(st) THEN @
                                         ELSE @ \cup {<<"fixGameStateSync", p, "client">>}]
    /\ UNCHANGED <<storeVars, gameTimers, published, nextPlayerId, nextRoomId,
                   session, joinTask, leaveTask, startTask, ticks, inputs>>
    /\ UNCHANGED <<bagRun, sync, bus>>

ClientSteps ==
    \/ \E s \in GameSockets, p \in DOMAIN playerGame, u \in ClientUpdates :
          UpdateStateMessage(s, p, u)
    \/ \E s \in GameSockets, p \in DOMAIN playerGame : ForceGameOverMessage(s, p)
    \/ \E s \in GameSockets, p \in DOMAIN playerGame : FixGameStateSyncMessage(s, p)

\* A game near its end, with the clients sending what the gateway accepts.
NextClient ==
    \/ PlaySteps
    \/ GameOverSteps
    \/ ClientSteps
    \/ \E p \in DOMAIN gameStateCache : CacheExpire(p)

SpecClient == InitOver /\ [][NextClient]_vars

(***************************************************************************)
(* leaveAutoRoom with the ids of the message                               *)
(***************************************************************************)

\* leaveAutoRoom messages of one run.
MaxLeaveMessages == 2

\* The player record names the room.
MemberOf(roomId, playerId) ==
    Has(players, playerId) /\ players[playerId].gameId = roomId

\* Gateway handleLeaveAutoRoom: leaveGameAuto(data.roomId, data.playerId)
\* with the ids of the message, whatever socket sent it.  First await of
\* leaveGameAuto: cleanupPlayerGameState deletes player_game:{playerId}.
\* history notes whether the player named was a member of the room named.
LeaveMessage(s, roomId, playerId) ==
    /\ session[s].connected
    /\ leaveTask[s].pc = "idle"
    /\ history.client < MaxLeaveMessages
    /\ playerGame' = Del(playerGame, playerId)
    /\ leaveTask' = [leaveTask EXCEPT ![s] =
                        [IdleLeave EXCEPT !.pc = "delPlayer",
                                          !.roomId = roomId,
                                          !.playerId = playerId,
                                          !.running = Running(playerId)]]
    /\ session' = [session EXCEPT ![s] =
                      IF session[s].playerId = playerId
                      THEN [@ EXCEPT !.roomId = 0, !.playerId = 0] ELSE @]
    /\ history' = [history EXCEPT
                      !.client = @ + 1,
                      !.notMember = IF MemberOf(roomId, playerId)
                                    THEN @ \ {s} ELSE @ \cup {s}]
    /\ UNCHANGED <<rooms, activeRooms, players, socketKeys, gameStateCache,
                   gameTimers, published, nextPlayerId, nextRoomId, joinTask,
                   startTask, gameTask, ticks, inputs>>
    /\ UNCHANGED <<bagRun, sync, bus>>

\* The steps of a leave after its first.
LeaveRest(s) ==
    \/ LeaveDeletePlayer(s)
    \/ LeaveDecrementRead(s)
    \/ LeaveDecrementWrite(s)
    \/ LeaveCheckRoom(s)
    \/ LeaveDeleteRoom(s)
    \/ LeaveActivityRead(s)
    \/ LeaveActivityWrite(s)
    \/ LeavePublish(s)

\* Two players in a room, and a client that sends leaveAutoRoom with the
\* ids of its choice.
NextLeave ==
    \/ \E s \in GameSockets, r \in 1..MaxRoomId, p \in 1..(nextPlayerId - 1) :
          LeaveMessage(s, r, p)
    \/ \E s \in GameSockets : LeaveRest(s)
    \/ \E p \in DOMAIN gameStateCache : CacheExpire(p)

SpecLeave == InitOver /\ [][NextLeave]_vars

\* handlePlayerInput messages of one run that name a player.
MaxNamedInputs == 2

\* The steps of the handlers of the messages of socket s.
HandlerOf(s) ==
    \/ \E p \in 1..(nextPlayerId - 1), a \in Actions :
          InputMessage(s, p, a, MaxNamedInputs)
    \/ InputApply(s)
    \/ TaskWrite(InputKey(s))
    \/ TaskPublish(InputKey(s))
    \/ GameOverBegin(InputKey(s))
    \/ GameOverPublish(InputKey(s))
    \/ GameOverCleanup(InputKey(s))
    \/ \E r \in 1..MaxRoomId, p \in 1..(nextPlayerId - 1) : LeaveMessage(s, r, p)
    \/ LeaveRest(s)

\* The sockets bound to no player.
Strangers == Sockets \ GameSockets

\* A client bound to no player that sends handlePlayerInput and
\* leaveAutoRoom with the ids of its choice; no timer fires.
NextNamed ==
    \/ \E s \in Strangers : HandlerOf(s)
    \/ \E p \in DOMAIN gameStateCache : CacheExpire(p)

SpecNamed == InitOver /\ [][NextNamed]_vars

(***************************************************************************)
(* getPlayerGameState of a started state without current piece             *)
(***************************************************************************)

ReadKey(p) == <<"read", p>>

\* The record of the store makes getPlayerGameState call startPlayerGame:
\* gameState.gameStarted && !gameState.currentPiece.
NeedsRestart(p) ==
    /\ Has(playerGame, p)
    /\ playerGame[p].gameStarted
    /\ ~HasPiece(playerGame[p])

\* getPlayerGameState, called by any handler or timer, whose cache entry is
\* missing or too old and whose read of the store finds such a record: it
\* calls startPlayerGame(playerId, gameState.roomId).
ReadBegin(p) ==
    /\ ~CacheFresh(p)
    /\ NeedsRestart(p)
    /\ ~Has(gameTask, ReadKey(p))
    /\ gameTask' = Put(gameTask, ReadKey(p),
                       [NewTask(p, "getPlayerGameState") EXCEPT
                           !.pc = "restart", !.base = playerGame[p]])
    /\ UNCHANGED <<storeVars, gameStateCache, gameTimers, published, nextPlayerId,
                   nextRoomId, session, joinTask, leaveTask, startTask, ticks,
                   inputs, history>>
    /\ UNCHANGED <<bagRun, sync, bus>>

\* startPlayerGame inside that read.  A missing room throws, which
\* startPlayerGame catches.  Else it reads the existing state with
\* getPlayerGameState: while the cache entry is not fresh and the record
\* still makes that call restart, the call is this same read once more, and
\* again, none of them changing anything, so the step waits; each of these
\* nested calls then repeats the step below, of which the model keeps one.
\* When the nested read returns, the started state is stored, the timer is
\* restarted at level 1, and the state and game_started are published.
ReadRestart(k) ==
    /\ Has(gameTask, k)
    /\ gameTask[k].pc = "restart"
    /\ LET p      == gameTask[k].playerId
           roomId == gameTask[k].base.roomId
           room   == getRoom(roomId)
           existing == getPlayerGameState(p)
       IN  IF room = NoRoom
           THEN UNCHANGED <<playerGame, gameStateCache, gameTimers, published>>
           ELSE /\ CacheFresh(p) \/ ~NeedsRestart(p)
                /\ \E c \in CharCodes :
                   \E st \in {StartedGameState(p, roomId,
                                   IF existing # NoState THEN existing.gameSeed
                                   ELSE room.roomSeed + c)} :
                   \E pub \in {PublishGameStateUpdate(p, st)} :
                       /\ playerGame' = Put(playerGame, p, st)
                       /\ gameStateCache' = CacheAfterReads(gameStateCache, {p})
                       /\ gameTimers' = restartGameTimerWithLevel(gameTimers, p, st.level)
                       /\ published' = published \cup pub.msgs
                                          \cup {Msg("game_started", p, "game_started")}
    /\ gameTask' = [gameTask EXCEPT ![k].pc = "again"]
    /\ UNCHANGED <<rooms, activeRooms, players, socketKeys, nextPlayerId,
                   nextRoomId, session, joinTask, leaveTask, startTask, ticks,
                   inputs, history>>
    /\ UNCHANGED <<bagRun, sync, bus>>

\* The end of that read: the record is read from the store once more, put
\* into the cache if there is one, and returned.
ReadAgain(k) ==
    /\ Has(gameTask, k)
    /\ gameTask[k].pc = "again"
    /\ LET p == gameTask[k].playerId
       IN  gameStateCache' = IF Has(playerGame, p)
                             THEN Put(Del(gameStateCache, p), p, playerGame[p])
                             ELSE gameStateCache
    /\ gameTask' = Del(gameTask, k)
    /\ UNCHANGED <<storeVars, gameTimers, published, nextPlayerId, nextRoomId,
                   session, joinTask, leaveTask, startTask, ticks, inputs, history>>
    /\ UNCHANGED <<bagRun, sync, bus>>

\* A step of getPlayerGameState for player p.
ReadStep(p) ==
    ReadBegin(p) \/ ReadRestart(ReadKey(p)) \/ ReadAgain(ReadKey(p))

\* The end of a game with a client that sends forceGameOverState, players
\* that leave, and reads of the stored states.
NextRead ==
    \/ \E s \in GameSockets, p \in DOMAIN playerGame : ForceGameOverMessage(s, p)
    \/ \E k \in DOMAIN gameTask : TaskWrite(k)
    \/ \E k \in DOMAIN gameTask : TaskPublish(k)
    \/ \E s \in GameSockets : LeaveSteps(s)
    \/ \E p \in DOMAIN playerGame : ReadBegin(p)
    \/ \E k \in DOMAIN gameTask : ReadRestart(k)
    \/ \E k \in DOMAIN gameTask : ReadAgain(k)
    \/ \E p \in DOMAIN gameStateCache : CacheExpire(p)

SpecRead == InitOver /\ [][NextRead]_vars

(***************************************************************************)
(* The piece sequence of one player                                        *)
(***************************************************************************)

MaxPieceInputs == 5
MaxPieceTicks == 1

\* Values generateOptimizedSeed may return at a join: its floor and the
\* value of Seeds.
PieceSeeds == Seeds \cup {1000}

PieceActions == {"hardDrop", "hold", "moveDown", "moveLeft"}

\* The server after one client has joined room 1 and the join handler has
\* run to its end: the state of initializePlayerGameState is stored, no
\* game is started and no timer runs.
InitPieces ==
    \E s \in GameSockets, seed \in PieceSeeds, roomSeed \in RoomSeeds :
        LET p == FirstPlayerId
        IN  /\ session = [t \in Sockets |->
                            IF t = s THEN [NoSession EXCEPT !.roomId = 1,
                                                           !.playerId = p,
                                                           !.joins = 1]
                            ELSE NoSession]
            /\ joinTask = [t \in Sockets |-> IdleJoin]
            /\ leaveTask = [t \in Sockets |-> IdleLeave]
            /\ startTask = [t \in Sockets |-> IdleStart]
            /\ gameTask = EmptyMap
            /\ ticks = 0
            /\ inputs = 0
            /\ history = [NoHistory EXCEPT !.joined = {p},
                                           !.created = (1 :> roomSeed)]
            /\ gameStateCache = EmptyMap
            /\ gameTimers = EmptyMap
            /\ published = {Msg("player_state_changed", 1, "players")}
            /\ rooms = (1 :> [id |-> 1, status |-> "WAITING",
                              currentPlayers |-> 1, roomSeed |-> roomSeed])
            /\ activeRooms = {1}
            /\ players = (p :> NewPlayer(1, s))
            /\ socketKeys = (s :> p)
            /\ playerGame = (p :> InitialGameState(p, 1, seed))
            /\ nextPlayerId = p + 1
            /\ nextRoomId = 2
            /\ bagRun = NoBagRun
            /\ sync = NoSync
            /\ bus = NoBus

\* No handler is between two of its steps.
NoHandlerRuns ==
    /\ gameTask = EmptyMap
    /\ \A s \in Sockets : startTask[s].pc = "idle"

\* The client sends its next message after the answer to the previous one,
\* and the timer period is longer than a handler: handlers run one at a time.
PieceSteps ==
    \/ \E s \in GameSockets, a \in PieceActions :
            NoHandlerRuns /\ ReceiveInput(s, a, MaxPieceInputs)
    \/ \E s \in GameSockets : InputApply(s)
    \/ \E p \in DOMAIN gameTimers : NoHandlerRuns /\ FireTick(p, MaxPieceTicks)
    \/ \E k \in DOMAIN gameTask : k[1] = "tick" /\ TickApply(k[2])
    \/ \E k \in DOMAIN gameTask : TaskWrite(k)
    \/ \E k \in DOMAIN gameTask : TaskPublish(k)

NextPieces ==
    \/ \E s \in GameSockets : NoHandlerRuns /\ StartBegin(s)
    \/ \E s \in GameSockets : StartStatusRead(s)
    \/ \E s \in GameSockets : StartStatusWrite(s)
    \/ \E s \in GameSockets : StartPlayer(s)
    \/ \E s \in GameSockets : StartFinish(s)
    \/ PieceSteps
    \/ \E p \in DOMAIN gameStateCache : CacheExpire(p)

SpecPieces == InitPieces /\ [][NextPieces]_vars

(***************************************************************************)
(* A tick that fails                                                       *)
(***************************************************************************)

\* A throw inside autoDropPiece.  The read of the state or the simulation
\* step throws: the catch of autoDropPiece logs and returns null (a failed
\* store read is already turned into null by getPlayerGameState, and
\* autoDropPiece returns null for it).  The set of updatePlayerGameState
\* throws: updatePlayerGameState catches and logs, and autoDropPiece goes on
\* to publish.  The publish throws: the catch of autoDropPiece again.  The
\* timer callback gets null or a state, never an exception.
TickFails(k) ==
    /\ Has(gameTask, k)
    /\ k[1] = "tick"
    /\ gameTask[k].pc \in {"apply", "write", "publish"}
    /\ gameTask' = IF gameTask[k].pc = "write"
                   THEN [gameTask EXCEPT ![k].pc = "publish"]
                   ELSE Del(gameTask, k)
    /\ history' = [history EXCEPT !.tickFailed =
                        @ \cup {<<gameTask[k].playerId, ticks, gameTask[k].pc>>}]
    /\ UNCHANGED <<storeVars, gameStateCache, gameTimers, published, nextPlayerId,
                   nextRoomId, session, joinTask, leaveTask, startTask, ticks, inputs>>
    /\ UNCHANGED <<bagRun, sync, bus>>

NextTickFail ==
    \/ PieceSteps
    \/ \E k \in DOMAIN gameTask : TickFails(k)
    \/ \E p \in DOMAIN gameStateCache : CacheExpire(p)

(***************************************************************************)
(* Shutdown                                                                *)
(***************************************************************************)

\* GameService.cleanup: stopAllGameTimers stops the timer of every key of
\* gameTimers, the map is cleared, and so is the cache.  Nothing is recorded
\* in the service; history notes that it has run.
cleanup ==
    /\ ~history.shutdown
    /\ gameTimers' = [p \in {} |-> NoTimer]
    /\ gameStateCache' = EmptyMap
    /\ history' = [history EXCEPT !.shutdown = TRUE]
    /\ UNCHANGED <<storeVars, published, nextPlayerId, nextRoomId, session,
                   joinTask, leaveTask, startTask, gameTask, ticks, inputs>>
    /\ UNCHANGED <<bagRun, sync, bus>>

\* One client and the shutdown: messages are received until cleanup has
\* run, the handlers under way go on to their end, and a timer that exists
\* fires.
NextShutdown ==
    \/ \E s \in GameSockets : ~history.shutdown /\ StartBegin(s)
    \/ \E s \in GameSockets : StartStatusRead(s)
    \/ \E s \in GameSockets : StartStatusWrite(s)
    \/ \E s \in GameSockets : StartPlayer(s)
    \/ \E s \in GameSockets : StartFinish(s)
    \/ \E s \in GameSockets, a \in Actions :
          ~history.shutdown /\ NoHandlerRuns /\ ReceiveInput(s, a, MaxInputs)
    \/ \E s \in GameSockets : InputApply(s)
    \/ \E p \in DOMAIN gameTimers : NoHandlerRuns /\ FireTick(p, MaxTicks)
    \/ \E k \in DOMAIN gameTask : k[1] = "tick" /\ TickApply(k[2])
    \/ \E k \in DOMAIN gameTask : TaskWrite(k)
    \/ \E k \in DOMAIN gameTask : TaskPublish(k)
    \/ cleanup

SpecShutdown == InitPieces /\ [][NextShutdown]_vars

(***************************************************************************)
(* A game in which a line is completed                                     *)
(***************************************************************************)

\* A value generateOptimizedSeed may return: its first bag is
\* I,S,L,T,J,O,Z, of which the locks spawn I, L and J.
LineSeeds == {12341}

\* The inputs handled before the specification starts: the I to the right
\* wall and down, the L to the left wall and down.  The J that follows
\* spawns over the three columns left between them.
LinePrelude ==
    <<"moveRight", "moveRight", "moveRight", "hardDrop",
      "moveLeft", "moveLeft", "moveLeft", "hardDrop">>

\* The state after the inputs of seq, each handled to its end.
RECURSIVE Played(_, _)
Played(st, seq) ==
    IF seq = <<>> THEN st
    ELSE Played(ApplyAction(st, Head(seq)).st, Tail(seq))

\* The server after one client has joined room 1, started the game and sent
\* the inputs of LinePrelude, each handled to its end before the next and
\* before the first tick, more than CACHE_TTL ago.
InitLines ==
    \E s \in GameSockets, seed \in LineSeeds, roomSeed \in RoomSeeds :
        LET p  == FirstPlayerId
            st == Played(StartedGameState(p, 1, seed), LinePrelude)
        IN  /\ rooms = (1 :> [id |-> 1, status |-> "PLAYING",
                              currentPlayers |-> 1, roomSeed |-> roomSeed])
            /\ activeRooms = {1}
            /\ players = (p :> NewPlayer(1, s))
            /\ socketKeys = (s :> p)
            /\ playerGame = (p :> st)
            /\ gameStateCache = EmptyMap
            /\ gameTimers = restartGameTimerWithLevel(EmptyMap, p, st.level)
            /\ published = {Msg("player_state_changed", 1, "players"),
                            Msg("game_started", p, "game_started"),
                            StateMsg(p, st)}
            /\ nextPlayerId = p + 1
            /\ nextRoomId = 2
            /\ session = [t \in Sockets |->
                            IF t = s THEN [NoSession EXCEPT !.roomId = 1,
                                                           !.playerId = p,
                                                           !.joins = 1]
                            ELSE NoSession]
            /\ joinTask = [t \in Sockets |-> IdleJoin]
            /\ leaveTask = [t \in Sockets |-> IdleLeave]
            /\ startTask = [t \in Sockets |-> IdleStart]
            /\ gameTask = EmptyMap
            /\ ticks = 0
            /\ inputs = 0
            /\ history = [NoHistory EXCEPT !.joined = {p}, !.starts[s] = 1,
                                           !.created = (1 :> roomSeed)]
            /\ bagRun = NoBagRun
            /\ sync = NoSync
            /\ bus = NoBus

NextLines ==
    \/ PieceSteps
    \/ \E p \in DOMAIN gameStateCache : CacheExpire(p)

SpecLines == InitLines /\ [][NextLines]_vars

\* The same game with the handlers of inputs and ticks free to overlap and
\* with the client sending updatePlayerGameState messages.
NextLevel ==
    \/ PlaySteps
    \/ \E s \in GameSockets, p \in DOMAIN playerGame, u \in ClientUpdates :
          UpdateStateMessage(s, p, u)
    \/ \E p \in DOMAIN gameStateCache : CacheExpire(p)

SpecLevel == InitLines /\ [][NextLevel]_vars

SpecTickFail == InitLines /\ [][NextTickFail]_vars

(***************************************************************************)
(* startRoomGame for a room whose game runs                                *)
(***************************************************************************)

\* startRoomGame messages of one client, the one that started the game of
\* the initial state included.
MaxRoomStarts == 2

NextRestart ==
    \/ \E s \in GameSockets : NoHandlerRuns /\ BeginStart(s, MaxRoomStarts)
    \/ \E s \in GameSockets : StartStatusRead(s)
    \/ \E s \in GameSockets : StartStatusWrite(s)
    \/ \E s \in GameSockets : StartPlayer(s)
    \/ \E s \in GameSockets : StartFinish(s)
    \/ PieceSteps
    \/ \E p \in DOMAIN gameStateCache : CacheExpire(p)

SpecRestart == InitLines /\ [][NextRestart]_vars

(***************************************************************************)
(* joinAutoRoom from a socket that is seated                               *)
(***************************************************************************)

MaxSocketJoins == 2

\* A seated client sends joinAutoRoom again without leaving.
JoinAgain(s) == FindRoom(s, TRUE, MaxSocketJoins)

NextRejoin ==
    \/ \E s \in Sockets : JoinSteps(s)
    \/ \E s \in Sockets : JoinAgain(s)

SpecRejoin == Init /\ [][NextRejoin]_vars

(***************************************************************************)
(* The seed of a room                                                      *)
(***************************************************************************)

\* Two values of Date.now() + Math.floor(Math.random() * 1000000).
FreshRoomSeeds == {777, 778}

\* A client that joins, starts the game of its room and leaves, with rooms
\* created with either seed.
NextSeed ==
    \/ \E s \in GameSockets : JoinFindRoom(s)
    \/ \E s \in GameSockets : CreateRoom(s, FreshRoomSeeds)
    \/ \E s \in GameSockets : JoinCreatePlayer(s)
    \/ \E s \in GameSockets : JoinIncrementRead(s)
    \/ \E s \in GameSockets : JoinIncrementWrite(s)
    \/ \E s \in GameSockets : JoinInitState(s)
    \/ \E s \in GameSockets : JoinActivityRead(s)
    \/ \E s \in GameSockets : JoinActivityWrite(s)
    \/ \E s \in GameSockets : JoinPublish(s)
    \/ \E s \in GameSockets : LeaveSteps(s)
    \/ \E s \in GameSockets : StartSteps(s)

SpecSeed == Init /\ [][NextSeed]_vars

(***************************************************************************)
(* Store operations that fail during a join or a leave                     *)
(***************************************************************************)

\* A store operation of joinGameAuto fails.  The get of the getRoom in
\* incrementRoomPlayers: getRoom catches it and returns null, and the
\* increment is skipped.  The set of incrementRoomPlayers or the set of
\* initializePlayerGameState: it throws, joinGameAuto logs and rethrows, and
\* the handler answers with an error.
JoinStoreFails(s) ==
    /\ \/ /\ joinTask[s].pc = "incRead"
          /\ joinTask' = [joinTask EXCEPT ![s].pc = "incWrite", ![s].room = NoRoom]
       \/ /\ joinTask[s].pc \in {"incWrite", "init"}
          /\ joinTask' = [joinTask EXCEPT ![s] = IdleJoin]
    /\ UNCHANGED <<storeVars, gameStateCache, gameTimers, published,
                   nextPlayerId, nextRoomId, session, leaveTask, startTask,
                   gameTask, ticks, inputs, history>>
    /\ UNCHANGED <<bagRun, sync, bus>>

\* A store operation of leaveGameAuto fails.  The del of
\* cleanupPlayerGameState: the method catches and logs it, and the leave
\* goes on.  deletePlayer or the set of decrementRoomPlayers: it throws,
\* leaveGameAuto logs and rethrows, and the handler answers with an error.
LeaveStoreFails(s) ==
    /\ \/ /\ session[s].connected
          /\ session[s].playerId # 0
          /\ leaveTask[s].pc = "idle"
          /\ leaveTask' = [leaveTask EXCEPT ![s] =
                              [IdleLeave EXCEPT !.pc = "delPlayer",
                                                !.roomId = session[s].roomId,
                                                !.playerId = session[s].playerId,
                                                !.running = Running(session[s].playerId)]]
          /\ session' = [session EXCEPT ![s].roomId = 0, ![s].playerId = 0]
       \/ /\ leaveTask[s].pc \in {"delPlayer", "decWrite"}
          /\ leaveTask' = [leaveTask EXCEPT ![s] = IdleLeave]
          /\ UNCHANGED session
    /\ UNCHANGED <<storeVars, gameStateCache, gameTimers, published,
                   nextPlayerId, nextRoomId, joinTask, startTask, gameTask,
                   ticks, inputs, history>>
    /\ UNCHANGED <<bagRun, sync, bus>>

\* One client joins and leaves, with store operations that may fail.
NextFail ==
    \/ \E s \in GameSockets : JoinFindRoom(s)
    \/ \E s \in GameSockets : CreateRoom(s, FreshRoomSeeds)
    \/ \E s \in GameSockets : JoinCreatePlayer(s)
    \/ \E s \in GameSockets : JoinIncrementRead(s)
    \/ \E s \in GameSockets : JoinIncrementWrite(s)
    \/ \E s \in GameSockets : JoinInitState(s)
    \/ \E s \in GameSockets : JoinActivityRead(s)
    \/ \E s \in GameSockets : JoinActivityWrite(s)
    \/ \E s \in GameSockets : JoinPublish(s)
    \/ \E s \in GameSockets : JoinStoreFails(s)
    \/ \E s \in GameSockets : LeaveSteps(s)
    \/ \E s \in GameSockets : LeaveStoreFails(s)

SpecFail == InitRoom /\ [][NextFail]_vars

(***************************************************************************)
(* generateNewBagWithSeed, step by step                                    *)
(***************************************************************************)

\* Seeds of the 32-bit range: the ends, the seeds around which the product
\* state * 1103515245 stops being exact in a double (2^53), the two seeds
\* whose exact successor is 0x7fffffff, and seeds of games.
BagSeeds ==
    {0, 1, 100, 101, 102, 1000, 12344, 12345, 8162277, 8162278, 8162279,
     230538013, 230538014, 230538015, 1073741823, 1073741824, 2147483646,
     2147483647, -1, -1000, -12345, -8162278, -8162279, -230538014,
     -1916945634, -1916945633, -2147483647, (-2147483647) - 1}

\* The call generateNewBagWithSeed(seed) before the first pass of its loop:
\* bag is a copy of pieces, the closure's state is seed, i is bag.length - 1.
BagCalled(seed) ==
    [pc |-> "loop", seed |-> seed, state |-> seed, bag |-> TetrominoTypes,
     i |-> Len(TetrominoTypes) - 1, j |-> 0]

InitBag ==
    /\ InitTasks
    /\ rooms = EmptyMap
    /\ activeRooms = {}
    /\ players = EmptyMap
    /\ socketKeys = EmptyMap
    /\ playerGame = EmptyMap
    /\ nextPlayerId = FirstPlayerId
    /\ nextRoomId = 1
    /\ \E seed \in BagSeeds : bagRun = BagCalled(seed)
    /\ sync = NoSync
    /\ bus = NoBus

\* One pass of the loop: seededRandom() advances the state and returns
\* state / 0x7fffffff, j is the floor of that times i + 1, and bag[i] and
\* bag[j] are exchanged.
BagStep ==
    /\ bagRun.pc = "loop"
    /\ bagRun.i > 0
    /\ \E st \in {LcgNext(bagRun.state)} :
       \E j \in {FloorScaled(st, bagRun.i + 1)} :
           bagRun' = [bagRun EXCEPT !.state = st, !.j = j,
                                    !.bag = Swap(bagRun.bag, bagRun.i + 1, j + 1),
                                    !.i = bagRun.i - 1]
    /\ UNCHANGED <<serverVars, sync, bus>>

BagReturn ==
    /\ bagRun.pc = "loop"
    /\ bagRun.i = 0
    /\ bagRun' = [bagRun EXCEPT !.pc = "done"]
    /\ UNCHANGED <<serverVars, sync, bus>>

NextBag ==
    \/ BagStep
    \/ BagReturn

SpecBag == InitBag /\ [][NextBag]_vars

(***************************************************************************)
(* NetworkSyncService: input_event                                         *)
(***************************************************************************)

\* Players that speak the join_game protocol, the seq numbers their
\* input_event messages carry, and the input_event messages of one run.
SyncPlayers == {1, 2}
MaxSeq == 3
MaxEvents == 3

\* The test with <= replaced by <.
SeqNotBelow(seq, lastSeq) == ~(seq < lastSeq)

\* if (seq <= clientState.lastSeq) return false
SeqAccepted(seq, lastSeq) == ~(seq <= lastSeq)

\* initializeClientState, which the join_game handler calls: a new client
\* state with lastSeq 0 replaces the one there may be.
SyncInitialize(p) ==
    /\ sync' = [sync EXCEPT !.clientStates = Put(@, p, [lastSeq |-> 0]),
                            !.accepted = Put(@, p, <<>>)]
    /\ UNCHANGED <<serverVars, bagRun, bus>>

\* cleanupClientState, which the leave handlers call.
SyncCleanup(p) ==
    /\ Has(sync.clientStates, p)
    /\ sync' = [sync EXCEPT !.clientStates = Del(@, p), !.accepted = Del(@, p)]
    /\ UNCHANGED <<serverVars, bagRun, bus>>

\* handleInputEvent up to its await: no client state, or a seq that fails
\* the test, returns false; else lastSeq is set and the set of
\* input:{playerId}:{seq} is sent to the store.
SyncReceive(p, seq) ==
    /\ sync.events < MaxEvents
    /\ IF ~Has(sync.clientStates, p)
       THEN sync' = [sync EXCEPT !.events = @ + 1]
       ELSE IF ~SeqAccepted(seq, sync.clientStates[p].lastSeq)
       THEN sync' = [sync EXCEPT !.events = @ + 1,
                                 !.rejected = @ \cup {<<p, seq>>}]
       ELSE sync' = [sync EXCEPT !.events = @ + 1,
                                 !.clientStates[p].lastSeq = seq,
                                 !.accepted[p] = Append(@, seq),
                                 !.pending = Append(@, [playerId |-> p, seq |-> seq])]
    /\ UNCHANGED <<serverVars, bagRun, bus>>

\* The rest of handleInputEvent: the store answers the sets in the order
\* they were sent, with success or with an error the handler passes on.
SyncStored ==
    /\ sync.pending # <<>>
    /\ \E ok \in BOOLEAN :
          sync' = [sync EXCEPT
                     !.pending = Tail(@),
                     !.stored = IF ok
                                THEN @ \cup {<<Head(sync.pending).playerId,
                                               Head(sync.pending).seq>>}
                                ELSE @]
    /\ UNCHANGED <<serverVars, bagRun, bus>>

NextSync ==
    \/ \E p \in SyncPlayers : SyncInitialize(p)
    \/ \E p \in SyncPlayers : SyncCleanup(p)
    \/ \E p \in SyncPlayers, seq \in 1..MaxSeq : SyncReceive(p, seq)
    \/ SyncStored

SpecSync == Init /\ [][NextSync]_vars

(***************************************************************************)
(* RedisService.subscribe and the subscriptions of the gateway             *)
(***************************************************************************)

\* Messages that arrive on the subscribed patterns in one run.
MaxBusMessages == 3

\* The patterns setupRedisSubscriptions subscribes to.
Patterns == {"game_state_update:*", "game_started:*", "player_state_changed:*"}

\* What arrives on a channel: the JSON text of an object the handler can
\* use, the JSON text of an object without the fields the handler reads
\* (data.players.length of undefined throws), or a text that is not JSON.
Payloads == {"object", "fieldless", "malformed"}

\* A client of the store publishes on a channel of a pattern.
BusArrive(pattern, payload) ==
    /\ bus.sent < MaxBusMessages
    /\ bus' = [bus EXCEPT !.sent = @ + 1,
                          !.queue = Append(@, [id |-> bus.sent + 1,
                                               pattern |-> pattern,
                                               payload |-> payload])]
    /\ UNCHANGED <<serverVars, bagRun, sync>>

\* The pmessage listener of RedisService.subscribe for the oldest message:
\* callback(JSON.parse(message)).  JSON.parse runs in the listener, outside
\* every try: for a text that is not JSON it throws out of the listener into
\* the emitter of the store client, where no code of the program catches
\* it; the process ends by the uncaught exception, or the emitter goes on,
\* whichever the library and the runtime do.  The callback of the gateway
\* wraps its body in try/catch and logs what its body throws: the
\* game_started callback calls JSON.parse on the parsed object it is given,
\* which throws for every object, and the player_state_changed callback
\* reads data.players.length.
HandlerThrows(m) ==
    \/ m.pattern = "game_started:*"
    \/ m.pattern = "player_state_changed:*" /\ m.payload = "fieldless"

BusDeliver ==
    /\ ~bus.down
    /\ bus.queue # <<>>
    /\ LET m == Head(bus.queue)
       IN  IF m.payload = "malformed"
           THEN \E dies \in BOOLEAN :
                    bus' = [bus EXCEPT !.queue = Tail(@),
                                       !.escaped = @ \cup {m.id},
                                       !.down = dies]
           ELSE IF HandlerThrows(m)
           THEN bus' = [bus EXCEPT !.queue = Tail(@), !.logged = @ \cup {m.id}]
           ELSE bus' = [bus EXCEPT !.queue = Tail(@), !.handled = @ \cup {m.id}]
    /\ UNCHANGED <<serverVars, bagRun, sync>>

NextBus ==
    \/ \E pattern \in Patterns, payload \in Payloads : BusArrive(pattern, payload)
    \/ BusDeliver

SpecBus == Init /\ [][NextBus]_vars

(***************************************************************************)
(* Properties                                                              *)
(***************************************************************************)

PlayerIds == FirstPlayerId .. (nextPlayerId - 1)

\* No handler that works on player p is between two of its awaits.
Quiet(p) ==
    /\ \A s \in Sockets : joinTask[s].pc = "idle" \/ joinTask[s].playerId # p
    /\ \A s \in Sockets : leaveTask[s].pc = "idle" \/ leaveTask[s].playerId # p
    /\ \A s \in Sockets : startTask[s].pc = "idle"
    /\ \A k \in DOMAIN gameTask : gameTask[k].playerId # p

\* No join, leave or start handler is between two of its awaits.
RoomsQuiet ==
    \A s \in Sockets : /\ joinTask[s].pc = "idle"
                       /\ leaveTask[s].pc = "idle"
                       /\ startTask[s].pc = "idle"

\* The stored states two overlapping mutations may leave when they are
\* applied one after the other: the action then the tick, or the tick then
\* the action.
SerialResults(base, action) ==
    {AutoDrop(ApplyAction(base, action).st).st,
     ApplyAction(AutoDrop(base).st, action).st}

\* C1: when a client action and a gravity tick of one player overlap (both
\* read the same stored state before either wrote), then once both have
\* written, the stored state is the result of applying the two one after the
\* other in some order.
C1_OverlapIsSerialized ==
    \A p \in DOMAIN history.race :
        LET race == history.race[p]
        IN  (/\ race.writes = 2
             /\ p \notin history.left
             /\ \A s \in Sockets : leaveTask[s].pc = "idle")
            => race.result \in SerialResults(race.base, race.action)

\* C1, the failing state: a hardDrop and a tick overlapped, both wrote, and
\* the stored state is the tick's alone: the lock and its score are gone.
C1_TickOverwritesLock ==
    \E p \in DOMAIN history.race :
        LET race == history.race[p]
        IN  /\ race.writes = 2
            /\ race.action = "hardDrop"
            /\ race.result = AutoDrop(race.base).st
            /\ race.result.score < ApplyAction(race.base, "hardDrop").st.score

Alive(p) ==
    /\ Has(playerGame, p)
    /\ playerGame[p].gameStarted
    /\ ~playerGame[p].gameOver

\* C2: whenever no handler is working on a player, an alive player (state
\* present, game started, not game over) has a gravity ticker and a player
\* whose stored state is game over has none.
C2_AliveIffTicker ==
    \A p \in PlayerIds :
        Quiet(p) =>
            /\ Alive(p) => Has(gameTimers, p)
            /\ (Has(playerGame, p) /\ playerGame[p].gameOver) => ~Has(gameTimers, p)

\* C2, the failing state: no handler is working on a player whose stored
\* state is alive after its game ended, and the player has no ticker.
C2_AliveWithoutTicker ==
    \E o \in history.over :
        /\ Quiet(o[1])
        /\ Alive(o[1])
        /\ ~Has(gameTimers, o[1])

\* C3: once leaveGameAuto has completed for a player whose game was running
\* when the leave began, and no handler is working on the player, no
\* gravity ticker exists for that player.
C3_NoTickerAfterLeave ==
    \A p \in history.leftRunning : Quiet(p) => ~Has(gameTimers, p)

\* C3, the failing state: the leave is complete, the player record and the
\* game state are gone, and the ticker is still installed.
C3_TickerOutlivesLeave ==
    \E p \in history.leftRunning :
        /\ Quiet(p)
        /\ ~Has(players, p)
        /\ ~Has(playerGame, p)
        /\ Has(gameTimers, p)

\* C4: once the disconnect of a socket has been handled, and no handler is
\* working on the player that had joined through it, that player is removed
\* and has no gravity ticker.
C4_DisconnectRemovesPlayer ==
    \A d \in history.disconnected :
        (d[2] # 0 /\ Quiet(d[2]))
        => /\ ~Has(players, d[2])
           /\ ~Has(gameTimers, d[2])

\* C4, the failing state: the socket is disconnected, and the player that
\* joined through it is still stored and still has a ticker.
C4_PlayerOutlivesDisconnect ==
    \E d \in history.disconnected :
        /\ d[2] # 0
        /\ Quiet(d[2])
        /\ ~session[d[1]].connected
        /\ Has(players, d[2])
        /\ Has(gameTimers, d[2])

\* C5: every stored state with gameOver set has no current piece and no
\* ghost piece, and its player has no gravity ticker.
C5_GameOverStateIsEmpty ==
    \A p \in DOMAIN playerGame :
        playerGame[p].gameOver =>
            /\ playerGame[p].currentPiece = NoPiece
            /\ playerGame[p].ghostPiece = NoPiece
            /\ ~Has(gameTimers, p)

\* C5, the failing state: no handler is working on a player whose stored
\* state is game over and still holds a current piece and a ghost piece.
C5_GameOverWithPiece ==
    \E p \in DOMAIN playerGame :
        /\ Quiet(p)
        /\ playerGame[p].gameOver
        /\ playerGame[p].currentPiece # NoPiece
        /\ playerGame[p].ghostPiece # NoPiece

\* A state update on the player's topic that carries gameOver.
TerminalUpdates(p) ==
    {m \in published : m.channel = "game_state_update" /\ m.id = p /\ m.gameOver}

\* C6: once a lock has left a board on which no piece can spawn and the
\* handlers working on the player have finished, the ticker is stopped, a
\* playerGameOver message has been published for the room, a terminal state
\* update has been published on the player's topic, and, if the player has
\* left since, the stored state is cleared.
C6_GameOverCascade ==
    \A o \in history.over :
        Quiet(o[1]) =>
            /\ ~Has(gameTimers, o[1])
            /\ Msg("game", o[2], "playerGameOver") \in published
            /\ TerminalUpdates(o[1]) # {}
            /\ (o[1] \in history.left => ~Has(playerGame, o[1]))

\* C6, the failing state: the game of a player ended at a lock, every
\* handler has finished, no playerGameOver was published for the room and
\* the state is still stored.
C6_NoGameOverEvent ==
    \E o \in history.over :
        /\ Quiet(o[1])
        /\ Msg("game", o[2], "playerGameOver") \notin published
        /\ Has(playerGame, o[1])

\* C7: every room's currentPlayers is between 0 and MAX_PLAYERS_PER_ROOM.
C7_RoomCountInRange ==
    \A r \in DOMAIN rooms :
        /\ rooms[r].currentPlayers >= 0
        /\ rooms[r].currentPlayers <= MAX_PLAYERS_PER_ROOM

\* C7, the failing state: a room counts one player more than the maximum.
C7_HundredPlayers ==
    \E r \in DOMAIN rooms : rooms[r].currentPlayers = MAX_PLAYERS_PER_ROOM + 1

\* C8: whenever no join, leave or start is in progress, every room's
\* currentPlayers is the number of player records assigned to the room.
C8_CountMatchesRoster ==
    RoomsQuiet =>
        \A r \in DOMAIN rooms :
            rooms[r].currentPlayers = Cardinality(RoomPlayers(r))

\* C8, the failing state: nothing is in progress and a room counts fewer
\* players than it has player records.
C8_CountBelowRoster ==
    /\ RoomsQuiet
    /\ \E r \in DOMAIN rooms :
          rooms[r].currentPlayers < Cardinality(RoomPlayers(r))

\* C9: whenever no join or leave is in progress and some player has left,
\* no room record and no active_rooms entry without players remains.
C9_NoEmptyRoomAfterLeave ==
    (RoomsQuiet /\ history.left # {}) =>
        \A r \in DOMAIN rooms \cup activeRooms : RoomPlayers(r) # {}

\* C9, the failing state: every player has left, nothing is in progress,
\* and a room record remains, outside active_rooms.
C9_RoomWithoutPlayers ==
    /\ RoomsQuiet
    /\ history.left # {}
    /\ DOMAIN players = {}
    /\ \E r \in DOMAIN rooms : r \notin activeRooms

\* C10: whenever no handler is working on a player, the player's game state
\* record exists exactly if the player record exists.
C10_StateIffPlayer ==
    \A p \in PlayerIds :
        Quiet(p) => (Has(playerGame, p) <=> Has(players, p))

\* C10, the failing state: the player has left, no handler is working on
\* the player, the player record is gone and a game state record exists.
C10_StateWithoutPlayer ==
    \E p \in history.left :
        /\ Quiet(p)
        /\ ~Has(players, p)
        /\ Has(playerGame, p)

\* The fields of a state that the simulation computes.
SimFields(st) ==
    <<st.board, st.currentPiece, st.ghostPiece, st.nextPiece, st.heldPiece,
      st.score, st.level, st.linesCleared>>

\* An input handler, a tick or a start is working on player p.
ServerWorksOn(p) ==
    \/ \E k \in DOMAIN gameTask :
          k[1] \in {"input", "tick"} /\ gameTask[k].playerId = p
    \/ \E s \in Sockets : p \in startTask[s].pending

\* C11: the board, the pieces, the score, the level and the line count of a
\* stored state change only in a step of an input handler, a gravity tick or
\* a start working on that player: no other message changes them.
C11_OnlyServerMutatesState ==
    [][\A p \in DOMAIN playerGame :
          (Has(playerGame', p) /\ SimFields(playerGame'[p]) # SimFields(playerGame[p]))
          => ServerWorksOn(p)]_vars

\* C11, the failing state: no handler has run since the game was set up, and
\* the stored score of a player is the one a client message supplied.
C11_ClientScoreStored ==
    \E p \in DOMAIN playerGame :
        /\ inputs = 0
        /\ ticks = 0
        /\ gameTask = EmptyMap
        /\ playerGame[p].score = 999999

\* C12: fixGameStateSync and forceGameOverState never run because of a
\* message a client sent.
C12_RepairsAreServerInitiated ==
    \A r \in history.repairs : r[3] # "client"

\* C12, the failing state: a forceGameOverState message of a client has run
\* to its end and the stored state of a player who was playing is the
\* forced one: game over, no pieces.
C12_ClientForcedGameOver ==
    \E r \in history.repairs :
        /\ r[1] = "forceGameOverState"
        /\ r[3] = "client"
        /\ inputs = 0
        /\ ticks = 0
        /\ gameTask = EmptyMap
        /\ Has(playerGame, r[2])
        /\ playerGame[r[2]].gameStarted
        /\ playerGame[r[2]].gameOver
        /\ playerGame[r[2]].currentPiece = NoPiece
        /\ Has(gameTimers, r[2])

\* The handler whose write this step stores for player p, if it is one of
\* the lock pipeline or of a hold that the switch carried out, in a game
\* that was started.
LockWritten(p) ==
    \E k \in DOMAIN gameTask :
        /\ gameTask[k].pc = "write" /\ gameTask[k].playerId = p
        /\ gameTask[k].locked
        /\ gameTask[k].base.gameStarted
        /\ Has(playerGame', p) /\ playerGame'[p] = gameTask[k].st
        /\ playerGame' # playerGame

HoldWritten(p) ==
    \E k \in DOMAIN gameTask :
        /\ gameTask[k].pc = "write" /\ gameTask[k].playerId = p
        /\ k[1] = "input" /\ gameTask[k].action = "hold"
        /\ gameTask[k].base.canHold /\ HasPiece(gameTask[k].base)
        /\ gameTask[k].base.gameStarted
        /\ Has(playerGame', p) /\ playerGame'[p] = gameTask[k].st
        /\ playerGame' # playerGame

\* C13: canHold is false in the state stored by a successful hold, and true
\* in the state stored by every lock (moveDown on collision, hardDrop,
\* auto-drop).
C13_CanHoldFollowsHoldAndLock ==
    [][\A p \in DOMAIN playerGame :
          /\ HoldWritten(p) => ~playerGame'[p].canHold
          /\ LockWritten(p) => playerGame'[p].canHold]_vars

\* C13: a lock made after a hold has been stored and canHold is still false.
C13_LockLeavesHoldDisabled ==
    \E k \in DOMAIN gameTask :
        /\ gameTask[k].pc = "publish" /\ gameTask[k].locked
        /\ gameTask[k].base.gameStarted
        /\ ~gameTask[k].base.canHold
        /\ gameTask[k].base.heldPiece # Null
        /\ Has(playerGame, gameTask[k].playerId)
        /\ playerGame[gameTask[k].playerId] = gameTask[k].st
        /\ ~playerGame[gameTask[k].playerId].canHold

\* C14: on every lock the new current piece has the type nextPiece had
\* before the lock, and the new nextPiece is the next draw from the bag.
C14_NextBecomesCurrent ==
    [][\A p \in DOMAIN playerGame :
          LockWritten(p) =>
              /\ playerGame'[p].currentPiece.type = playerGame[p].nextPiece
              /\ playerGame'[p].nextPiece = getNextPiece(playerGame[p]).type
              /\ playerGame'[p].bagIndex = getNextPiece(playerGame[p]).st.bagIndex]_vars

\* C14: a lock has been stored whose new current piece is not the type that
\* was shown as next: that type was never played.
C14_NextPieceSkipped ==
    \E k \in DOMAIN gameTask :
        /\ gameTask[k].pc = "publish" /\ gameTask[k].locked
        /\ gameTask[k].base.gameStarted
        /\ Has(playerGame, gameTask[k].playerId)
        /\ playerGame[gameTask[k].playerId] = gameTask[k].st
        /\ gameTask[k].st.currentPiece.type # gameTask[k].base.nextPiece

IsBag(bag) ==
    /\ Len(bag) = Len(TetrominoTypes)
    /\ {bag[i] : i \in 1..Len(bag)} = {TetrominoTypes[i] : i \in 1..Len(TetrominoTypes)}

BagWellFormed(st) ==
    /\ IsBag(st.tetrominoBag)
    /\ st.bagIndex \in 0..Len(TetrominoTypes)
    /\ st.bagNumber >= 1

\* Draws a handler records before it stores the state: one for a hold or a
\* materialised piece, two for a lock.
MostDraws == 2

\* The bag fields of b follow from those of a: either no bag was generated,
\* or bagNumber is one more and the draw that regenerated found the index
\* at the length of the bag.
BagDrawn(a, b) ==
    \/ /\ b.bagNumber = a.bagNumber
       /\ b.tetrominoBag = a.tetrominoBag
    \/ /\ b.bagNumber = a.bagNumber + 1
       /\ b.bagIndex >= 1
       /\ (Len(a.tetrominoBag) - a.bagIndex) + b.bagIndex \in 1..MostDraws

C16_BagSeededByNumber ==
    \A p \in DOMAIN playerGame :
        playerGame[p].tetrominoBag =
            generateNewBagWithSeed(playerGame[p].gameSeed + playerGame[p].bagNumber)

\* C16: a started game plays its first bag, and the bag is the shuffle seeded
\* with gameSeed alone, not the one seeded with gameSeed + 1.
C16_FirstBagSeededWithGameSeed ==
    \E p \in DOMAIN playerGame :
        /\ playerGame[p].gameStarted
        /\ playerGame[p].bagNumber = 1
        /\ playerGame[p].tetrominoBag = generateNewBagWithSeed(playerGame[p].gameSeed)
        /\ playerGame[p].tetrominoBag # generateNewBagWithSeed(playerGame[p].gameSeed + 1)

\* C17: for every 32-bit seed each value of seededRandom is in [0, 1), never
\* 1: the state is below 0x7fffffff; so every Fisher-Yates index j is in
\* 0..i, and the shuffle is a permutation of the seven types with no
\* missing entry, the one generateNewBagWithSeed returns.
C17_ShuffleStaysInRange ==
    bagRun.pc # "idle" =>
        /\ IsBag(bagRun.bag)
        /\ bagRun.i < Len(TetrominoTypes) - 1 =>
               /\ bagRun.state \in 0..(MASK31 - 1)
               /\ bagRun.j \in 0..(bagRun.i + 1)
        /\ bagRun.pc = "done" =>
               bagRun.bag = generateNewBagWithSeed(bagRun.seed)

\* C17: the shuffle has returned for a seed whose successor in exact
\* arithmetic is 0x7fffffff.
C17_CriticalSeedShuffled ==
    /\ bagRun.pc = "done"
    /\ LcgNextExact(bagRun.seed) = MASK31

PlayersOf(s) == {p \in DOMAIN players : players[p].socketId = s}

\* C18: each connected socket is bound to at most one Player, and each
\* Player to at most one Room, also when the socket sends joinAutoRoom
\* more than once without leaving.
C18_OnePlayerPerSocket ==
    /\ \A s \in Sockets : session[s].connected => Cardinality(PlayersOf(s)) <= 1
    /\ \A p \in DOMAIN players :
           Cardinality({r \in DOMAIN rooms : players[p].gameId = r}) <= 1

\* C18: a socket has completed two joins without leaving, and both players
\* are stored with its socket id.
C18_SocketWithTwoPlayers ==
    \E s \in Sockets :
        /\ session[s].connected
        /\ session[s].joins = MaxSocketJoins
        /\ joinTask[s].pc = "idle"
        /\ history.left = {}
        /\ Cardinality(PlayersOf(s)) = 2
        /\ PlayersOf(s) \subseteq history.joined

\* Copies of room records the running handlers hold.
RoomCopies ==
    {joinTask[s].room : s \in Sockets} \cup {leaveTask[s].room : s \in Sockets}
        \cup {startTask[s].room : s \in Sockets}

\* C19: the roomSeed of a room is set when the room is created and is the
\* same in every later read and write of the room, under joins, leaves,
\* status changes and starts.
C19_RoomSeedFixed ==
    /\ \A r \in DOMAIN rooms :
           Has(history.created, r) /\ rooms[r].roomSeed = history.created[r]
    /\ \A room \in RoomCopies \ {NoRoom} :
           Has(history.created, room.id) /\ room.roomSeed = history.created[room.id]

\* C19: a player has left, and a room whose status a start has set to
\* PLAYING still has the seed of its creation.
C19_StartedRoomKeepsSeed ==
    /\ history.left # {}
    /\ \E r \in DOMAIN rooms :
           /\ rooms[r].status = "PLAYING"
           /\ rooms[r].roomSeed = history.created[r]

NoStartRequested == \A s \in Sockets : history.starts[s] = 0

\* C20: from the end of joinGameAuto until an explicit start the state of
\* the player keeps gameStarted false and no current piece, and no ticker
\* runs: no read, publish or action starts the game.
C20_IdleUntilStart ==
    NoStartRequested =>
        \A p \in DOMAIN playerGame :
            /\ ~playerGame[p].gameStarted
            /\ ~HasPiece(playerGame[p])
            /\ ~Has(gameTimers, p)

\* C20: no start was requested, and the stored state of a player has a
\* current piece, locked cells on the board and a score.
C20_PlayedBeforeStart ==
    /\ NoStartRequested
    /\ \E p \in DOMAIN playerGame :
           /\ HasPiece(playerGame[p])
           /\ playerGame[p].board # createEmptyBoard
           /\ playerGame[p].score > 0

(***************************************************************************)
(* The start transition, level and score                                   *)
(***************************************************************************)

\* The step of startRoomGame handler s that runs startPlayerGame for p.
StartsPlayer(s, p) ==
    /\ startTask[s].pc = "players"
    /\ p \in startTask[s].pending
    /\ p \notin startTask'[s].pending
    /\ Has(playerGame, p)
    /\ getRoom(startTask[s].roomId) # NoRoom

\* C21: startPlayerGame on a joined player stores currentPiece = the block
\* of bag[0], nextPiece = bag[1], bagIndex = 2, the ghost of the current
\* piece and gameStarted, starts the ticker at the interval of the player's
\* level, and leaves the level as it was before the start.
C21_StartTransition ==
    [][\A s \in Sockets, p \in PlayerIds :
         StartsPlayer(s, p) =>
            LET old == playerGame[p]
                new == playerGame'[p]
            IN  /\ new.currentPiece = createTetrisBlock(new.tetrominoBag[1])
                /\ new.nextPiece = new.tetrominoBag[2]
                /\ new.bagIndex = 2
                /\ new.ghostPiece = getGhostPiece(new.currentPiece, new.board)
                /\ new.gameStarted
                /\ Has(gameTimers', p)
                /\ gameTimers'[p].level = new.level
                /\ new.level = old.level]_vars

\* C21: a player whose game was just started, with the first two types of
\* the bag as current and next piece and a ticker, is at level 1, while the
\* state stored at the join has level 0.
C21_StartRaisesLevel ==
    \E p \in DOMAIN playerGame :
        /\ playerGame[p] = StartedGameState(p, playerGame[p].roomId,
                                            playerGame[p].gameSeed)
        /\ InitialGameState(p, playerGame[p].roomId, playerGame[p].gameSeed).level = 0
        /\ playerGame[p].level = 1
        /\ Has(gameTimers, p)

\* The state startPlayerGame stored for the player of st.
FreshStart(st) == StartedGameState(st.playerId, st.roomId, st.gameSeed)

\* C22: in every state of a started game level = floor(linesCleared / 10),
\* and the hardDrop of the first piece of a new game onto the empty board
\* gives score = distance * 2, linesCleared = 0 and level = 0.
C22_LevelFollowsLines ==
    /\ \A p \in DOMAIN playerGame :
           playerGame[p].gameStarted =>
               playerGame[p].level = playerGame[p].linesCleared \div 10
    /\ \A k \in DOMAIN gameTask :
           (/\ gameTask[k].pc = "write"
            /\ gameTask[k].action = "hardDrop"
            /\ gameTask[k].base = FreshStart(gameTask[k].base)) =>
               LET base == gameTask[k].base
                   st   == gameTask[k].st
               IN  /\ st.score = hardDrop(base.currentPiece, base.board).dropDistance * 2
                   /\ st.linesCleared = 0
                   /\ st.level = 0

\* C22: the stored state of a started game is the one after the hardDrop of
\* the first piece onto the empty board: the score is twice the distance, no
\* line is cleared, and the level is 1.
C22_FirstDropAtLevelOne ==
    \E p \in DOMAIN playerGame :
        LET st    == playerGame[p]
            fresh == FreshStart(st)
        IN  /\ st.gameStarted
            /\ st = ApplyAction(fresh, "hardDrop").st
            /\ st.score = hardDrop(fresh.currentPiece, fresh.board).dropDistance * 2
            /\ st.score > 0
            /\ st.linesCleared = 0
            /\ st.level = 1

\* The score a lock added, without the hardDrop bonus of the drop before it.
LockGain(task) ==
    LET bonus == IF task.action = "hardDrop"
                 THEN hardDrop(task.base.currentPiece, task.base.board).dropDistance * 2
                 ELSE 0
    IN  task.st.score - task.base.score - bonus

LockResults == {k \in DOMAIN gameTask : gameTask[k].locked /\ gameTask[k].pc \in {"write", "over"}}

\* C23: a lock that clears k lines at level L adds LINE_SCORES[k] * (L + 1)
\* to score and k to linesCleared, and a single line completed by a player
\* who has cleared no line before adds exactly 100.
C23_LockScore ==
    \A k \in LockResults :
        LET task == gameTask[k]
            n    == task.st.linesCleared - task.base.linesCleared
        IN  /\ n \in 0..4
            /\ LockGain(task) = LINE_SCORES[n + 1] * (task.base.level + 1)
            /\ (n = 1 /\ task.base.linesCleared = 0) => LockGain(task) = 100

\* C23: in a started game a lock has completed the first line of the
\* player, the line is gone from the board, and the lock has added 200.
C23_FirstLineScoresDouble ==
    \E k \in LockResults :
        LET task == gameTask[k]
        IN  /\ task.base.gameStarted
            /\ task.base.linesCleared = 0
            /\ task.st.linesCleared = 1
            /\ task.st.board[BOARD_HEIGHT] # FullRow
            /\ LockGain(task) = 200

(***************************************************************************)
(* Rejected requests                                                       *)
(***************************************************************************)

\* Handler s receives a startRoomGame message in this step.
StartRequested(s) ==
    /\ startTask[s].pc = "idle"
    /\ history'.starts[s] = history.starts[s] + 1

\* C24: startRoomGame on a missing room, or on a room whose status is not
\* WAITING (one that is PLAYING, say), fails: the handler ends with the
\* request, no player's game state is changed and no ticker is started.
C24_StartRejected ==
    [][\A s \in Sockets :
         (/\ StartRequested(s)
          /\ getRoom(session[s].roomId).status # "WAITING") =>
            /\ startTask'[s] = IdleStart
            /\ UNCHANGED <<playerGame, gameTimers>>]_vars

\* C24: a second startRoomGame has been handled for a room that was
\* PLAYING, and the state of its player, who had locked pieces and a
\* score, is that of a new game.
C24_RunningGameRestarted ==
    \E s \in Sockets, p \in DOMAIN playerGame :
        /\ history.starts[s] = 2
        /\ session[s].playerId = p
        /\ startTask[s].pc = "players"
        /\ p \notin startTask[s].pending
        /\ playerGame[p] = FreshStart(playerGame[p])
        /\ Has(gameTimers, p)

\* The store as a join or a leave that has ended should leave it: the count
\* of every room is the number of its players, and every player has a room
\* and a PlayerGameState.
CoherentStore(rs, ps, pg) ==
    /\ \A r \in DOMAIN rs :
           rs[r].currentPlayers = Cardinality({p \in DOMAIN ps : ps[p].gameId = r})
    /\ \A p \in DOMAIN ps : Has(rs, ps[p].gameId) /\ Has(pg, p)

\* C25: a store operation that fails during joinGameAuto or leaveGameAuto
\* ends the handler with the failure, and leaves the store coherent: no
\* Player without its increment of the room count, no increment without
\* its Player, no Player without a PlayerGameState.
C25_FailureLeavesStoreCoherent ==
    [][\A s \in GameSockets :
         (JoinStoreFails(s) \/ LeaveStoreFails(s)) =>
            /\ joinTask'[s] = IdleJoin
            /\ leaveTask'[s] = IdleLeave
            /\ CoherentStore(rooms', players', playerGame')]_vars

\* C25: no handler runs, the client was answered with an error and has no
\* player id, and the store holds a Player of its socket in a room whose
\* count is 0 and without a PlayerGameState.
C25_PlayerWithoutIncrement ==
    \E s \in GameSockets, p \in DOMAIN players :
        /\ joinTask[s] = IdleJoin
        /\ leaveTask[s] = IdleLeave
        /\ session[s].playerId = 0
        /\ history.left = {}
        /\ players[p].socketId = s
        /\ Has(rooms, players[p].gameId)
        /\ rooms[players[p].gameId].currentPlayers = 0
        /\ ~Has(playerGame, p)

\* The stored state of p is that of a game that is over.
GameIsOver(p) == Has(playerGame, p) /\ playerGame[p].gameOver

SpawnCollides(type, board) ==
    \E c \in TETROMINO_SHAPES[type][1] :
        LET x == TETROMINO_SPAWN_POSITIONS[type].x + c[1]
            y == TETROMINO_SPAWN_POSITIONS[type].y + c[2]
        IN  \/ x < 0
            \/ x >= BOARD_WIDTH
            \/ y >= BOARD_HEIGHT
            \/ (y >= 0 /\ x \in board[y + 1])

NoSpawnFits(board) ==
    \A i \in 1..Len(TetrominoTypes) : SpawnCollides(TetrominoTypes[i], board)

\* C28: isGameOver of a board is true if and only if each of the seven piece
\* types collides with the board at its spawn position, and the gameOver
\* flag of every stored game state, which the start sets to false on an
\* empty board and every lock sets from the board it leaves, is true
\* exactly when this holds for the stored board.
C28_GameOverIffNoSpawnFits ==
    \A p \in DOMAIN playerGame :
        playerGame[p] # NoState =>
            /\ isGameOver(playerGame[p].board) <=> NoSpawnFits(playerGame[p].board)
            /\ playerGame[p].gameOver <=> NoSpawnFits(playerGame[p].board)

\* C28: a lock has ended a game on a board whose top row is empty: no piece
\* can spawn because of the row below it.
C28_OverBelowTopRow ==
    \E p \in DOMAIN playerGame :
        /\ playerGame[p] # NoState
        /\ playerGame[p].gameOver
        /\ NoSpawnFits(playerGame[p].board)
        /\ ~TopRowFilled(playerGame[p].board)
        /\ \E o \in history.over : o[1] = p

(***************************************************************************)
(* The cache of game states                                                *)
(***************************************************************************)

\* C29: every write and every delete of a player_game record invalidates
\* the cache entry of the player: what getPlayerGameState returns is the
\* stored record, and nothing when the record has been deleted.
C29_CacheTransparent ==
    \A p \in DOMAIN gameStateCache \cup DOMAIN playerGame :
        getPlayerGameState(p) = IF Has(playerGame, p) THEN playerGame[p] ELSE NoState

\* C29: a player has left, cleanupPlayerGameState has deleted the record,
\* and getPlayerGameState still returns the state from the cache.
C29_DeletedStateReturned ==
    \E p \in DOMAIN gameStateCache :
        /\ ~Has(playerGame, p)
        /\ p \in history.left
        /\ getPlayerGameState(p) # NoState

(***************************************************************************)
(* The ticker and the level                                                *)
(***************************************************************************)

\* No handler that writes the state of p or sets its ticker is between two
\* of its steps.
Settled(p) ==
    /\ \A k \in DOMAIN gameTask : gameTask[k].playerId # p
    /\ \A s \in Sockets : startTask[s].pc = "idle"

\* C30: a player whose ticker runs and whose state is stored, with no
\* handler of the player under way, has a ticker whose interval is
\* calculateDropInterval of the stored level: each lock that changes the
\* level has restarted the ticker at the interval of the level it stored.
C30_TickerFollowsLevel ==
    \A p \in DOMAIN gameTimers :
        (Has(playerGame, p) /\ Settled(p)) =>
            calculateDropInterval(gameTimers[p].level)
                = calculateDropInterval(playerGame[p].level)

\* C30: a lock has raised the level and restarted the ticker, every handler
\* of the player has ended, and the stored level is the one from before.
C30_TickerAheadOfLevel ==
    \E p \in DOMAIN gameTimers :
        /\ Has(playerGame, p)
        /\ Settled(p)
        /\ gameTimers[p].level > playerGame[p].level
        /\ calculateDropInterval(gameTimers[p].level)
                < calculateDropInterval(playerGame[p].level)

(***************************************************************************)
(* Shutdown and failures                                                   *)
(***************************************************************************)

\* C31: once cleanup has run no ticker exists, whatever handler was under
\* way when it ran; stopping the ticker of a player that has none changes
\* nothing.
C31_NoTickerAfterShutdown ==
    /\ history.shutdown => DOMAIN gameTimers = {}
    /\ \A p \in 1..nextPlayerId :
          ~Has(gameTimers, p) => stopGameTimer(gameTimers, p) = gameTimers

\* C31: cleanup has run while startRoomGame was between its steps, and the
\* player it then started has a ticker.
C31_TickerStartedAfterShutdown ==
    /\ history.shutdown
    /\ \E p \in DOMAIN gameTimers : Has(playerGame, p) /\ playerGame[p].gameStarted

\* C32: a tick in which a store operation or the simulation step of the
\* auto-drop throws ends without an exception reaching the timer, and the
\* step in which it fails leaves the player without ticker.
C32_FailedTickStopsTicker ==
    [][\A f \in history'.tickFailed \ history.tickFailed :
            ~Has(gameTimers', f[1])]_vars

\* C32: a tick of a player has failed and the handler has ended, and the
\* player's ticker still runs.
C32_TickerRunsAfterFailedTick ==
    \E f \in history.tickFailed :
        /\ Has(gameTimers, f[1])
        /\ ~Has(gameTask, TickKey(f[1]))

\* C33: an exception raised while one message of the subscribed patterns is
\* handled is caught and logged, none leaves the listener, and the messages
\* after it are still delivered: every message taken from the queue has
\* been handled or logged, and delivery has not stopped.
C33_SubscriptionSurvives ==
    /\ bus.escaped = {}
    /\ ~bus.down
    /\ \A id \in 1..bus.sent :
          id \in bus.handled \cup bus.logged
              \/ \E i \in 1..Len(bus.queue) : bus.queue[i].id = id

\* C33: a text that is not JSON has arrived, its exception has left the
\* listener, and a message that arrived after it waits with no listener to
\* take it, while an exception of a handler body was caught and logged.
C33_LaterMessageUndelivered ==
    /\ bus.down
    /\ bus.escaped # {}
    /\ bus.logged # {}
    /\ \E i \in 1..Len(bus.queue) : \A e \in bus.escaped : bus.queue[i].id > e

(***************************************************************************)
(* Records and cache entries of players that are gone                      *)
(***************************************************************************)

\* C34: the cache holds entries for existing players only: a player whose
\* leave has ended, or whose state the game-over pipeline has cleared, has
\* no entry in gameStateCache.
C34_NoEntryForDepartedPlayer ==
    \A p \in history.left \cup history.cleared : ~Has(gameStateCache, p)

\* C34: a player has left, the player record and the game state are
\* deleted, and the entry of the player is still in the cache after its
\* time to live has passed.
C34_ExpiredEntryOfDepartedPlayer ==
    \E p \in history.left :
        /\ ~Has(players, p)
        /\ ~Has(playerGame, p)
        /\ Has(gameStateCache, p)
        /\ gameStateCache[p] = Expired

\* C35: when the handlers of a player whose game has ended are through,
\* the score, linesCleared and level of the player record are those of the
\* state the last lock produced, however often handleGameOver has run.
C35_StatsOfFinalState ==
    \A p \in DOMAIN history.final :
        (Has(players, p) /\ Settled(p)) =>
            /\ players[p].score = history.final[p].score
            /\ players[p].linesCleared = history.final[p].linesCleared
            /\ players[p].level = history.final[p].level

\* C35: a game has ended, its handlers are through, and the score of the
\* player record is below the score of the final state: the points of the
\* last lock are missing.
C35_LastLockNotCounted ==
    \E p \in DOMAIN history.final :
        /\ Has(players, p)
        /\ Settled(p)
        /\ p \in history.cleared
        /\ players[p].score > 0
        /\ players[p].score < history.final[p].score

\* C36: once the state of a player has been deleted, by the leave of the
\* player or by the game-over pipeline, no tick and no input of the player
\* stores a player_game record for the player again.
C36_DeletedStateStaysDeleted ==
    \A p \in history.cleared \cup history.left : ~Has(playerGame, p)

\* C36: the game-over pipeline has deleted the state of a player, the
\* handlers of the player are through, and the record is stored again.
C36_StateStoredAgain ==
    \E p \in history.cleared :
        /\ Settled(p)
        /\ Has(playerGame, p)
        /\ playerGame[p].gameOver

(***************************************************************************)
(* Reads of the state                                                      *)
(***************************************************************************)

\* The fields of the stored state of p a read must leave alone.
Simulated(pg, p) ==
    IF Has(pg, p)
    THEN <<pg[p].board, pg[p].score, pg[p].level, pg[p].linesCleared, pg[p].gameOver>>
    ELSE <<>>

\* C37: no step of getPlayerGameState changes the board, score, level,
\* linesCleared or gameOver flag stored for the player or starts a ticker,
\* also when the stored state is started and has no current piece.
C37_ReadChangesNothing ==
    [][\A p \in DOMAIN playerGame \cup {q \in 1..nextPlayerId : Has(gameTask, ReadKey(q))} :
            ReadStep(p) =>
                /\ Simulated(playerGame', p) = Simulated(playerGame, p)
                /\ gameTimers' = gameTimers]_vars

\* C37: a read of a started state without current piece has ended, the
\* player has a fresh started state with score 0 on an empty board where a
\* forced game-over state was stored, and a ticker of the player runs.
C37_ReadRestartedGame ==
    \E p \in DOMAIN playerGame :
        /\ <<"forceGameOverState", p, "client">> \in history.repairs
        /\ ~Has(gameTask, ReadKey(p))
        /\ CacheFresh(p)
        /\ gameStateCache[p] = playerGame[p]
        /\ playerGame[p].gameStarted
        /\ ~playerGame[p].gameOver
        /\ playerGame[p].board = createEmptyBoard
        /\ Has(gameTimers, p)

(***************************************************************************)
(* Leaves that name a player                                               *)
(***************************************************************************)

\* C38: a leave that names a player who is not a member of the room named,
\* a repeated leave included, leaves currentPlayers of the room as it is
\* and does not delete the room while it has players.
C38_LeaveOfNonMemberChangesNothing ==
    [][\A s \in history.notMember :
          LeaveRest(s) =>
              LET r == leaveTask[s].roomId
              IN  Has(rooms, r) =>
                    /\ Has(rooms', r) \/ RoomPlayers(r) = {}
                    /\ Has(rooms', r) =>
                          rooms'[r].currentPlayers = rooms[r].currentPlayers]_vars

\* C38: a player has left twice, and the room of the other player, who is
\* still a member, is deleted.
C38_RoomOfMemberDeleted ==
    \E s \in history.notMember :
        \E p \in DOMAIN players :
            /\ leaveTask[s].pc = "publish"
            /\ leaveTask[s].playerId \in history.left
            /\ players[p].gameId = leaveTask[s].roomId
            /\ ~Has(rooms, leaveTask[s].roomId)

\* C39: whenever no join or leave is in progress, the room record of every
\* player exists and is listed in active_rooms, also when the player joined
\* while the last player of the room was leaving.
C39_PlayerRoomExists ==
    RoomsQuiet =>
        \A p \in DOMAIN players :
            /\ Has(rooms, players[p].gameId)
            /\ players[p].gameId \in activeRooms

\* C39: a join and the leave of the last player of the room have both
\* ended, and the player who joined is assigned to a room that is not
\* listed in active_rooms.
C39_JoinedDeletedRoom ==
    /\ RoomsQuiet
    /\ \E p \in DOMAIN players :
          /\ p \in history.joined
          /\ history.left # {}
          /\ players[p].gameId \notin activeRooms

\* The records of player p and the ticker of p stay as they are.
Untouched(p) ==
    /\ Has(players', p) = Has(players, p)
    /\ Has(players, p) => players'[p] = players[p]
    /\ Has(playerGame', p) = Has(playerGame, p)
    /\ Has(playerGame, p) => playerGame'[p] = playerGame[p]
    /\ Has(gameTimers', p) = Has(gameTimers, p)

\* C40: a step of the handler of a handlePlayerInput or leaveAutoRoom
\* message of socket s changes the records of no player bound to another
\* socket, whatever player id the message names.
C40_OnlyOwnPlayerChanged ==
    [][\A s \in Sockets :
          HandlerOf(s) =>
              \A p \in DOMAIN players : players[p].socketId # s => Untouched(p)]_vars

\* C40: a socket bound to no player has sent leaveAutoRoom with the id of
\* the player of another socket, whose record and game state are gone
\* while that socket has sent no leave.
C40_OtherPlayerRemoved ==
    \E s \in Sockets, t \in Sockets :
        /\ s # t
        /\ Has(socketKeys, t)
        /\ socketKeys[t] = session[t].playerId
        /\ leaveTask[s].playerId = session[t].playerId
        /\ leaveTask[s].pc = "publish"
        /\ leaveTask[t].pc = "idle"
        /\ ~Has(players, session[t].playerId)
        /\ ~Has(playerGame, session[t].playerId)

====
